---------------------------- MODULE Spec2Model ----------------------------
(***************************************************************************)
(* A model of unzrip: the destination-path check (path_join), the          *)
(* permission sanitiser, the size-capped CRC-checked copy of one entry,    *)
(* the driver loop over the archive arguments, the zip-parser crate        *)
(* (EOCDR discovery, central-directory enumeration, local-header           *)
(* resolution) over byte buffers, the parallel extraction of the entries   *)
(* of an archive into a directory tree, and the DOS timestamp decoder.     *)
(*                                                                         *)
(* The module holds one specification per part of the program; the         *)
(* variables of the other parts stay at their idle values.                 *)
(***************************************************************************)
EXTENDS Integers, Sequences, FiniteSets, TLC

VARIABLES
    \* ---- do_entry / do_dir / do_file on one entry name (src/src/main.rs)
    name,        \* the decoded entry name, a sequence of characters
    storeEmpty,  \* cfh.method == STORE && buf.is_empty()
    pjPos,       \* number of components the try_fold of path_join has consumed
    depth,       \* the accumulator of the try_fold
    pjResult,    \* "running" | "ok" | the error message of path_join
    created,     \* the destinations created so far, each a component sequence
    \* ---- sanitize_setuid on one record (src/src/util.rs, src/src/main.rs)
    madeByVer, extAttrsHi, extAttrsLo, permPc, appliedMode,
    \* ---- io::copy(Crc32Checker(Take(decoder))) (src/src/main.rs, util.rs)
    uncompSize,  \* cfh.uncomp_size
    expect,      \* cfh.crc32, the expect of Crc32Checker
    decOut,      \* everything the decoder would emit
    decPos,      \* the bytes the decoder has emitted
    takeLimit,   \* Take.limit
    hasher,      \* Crc32Checker.hasher
    written,     \* the bytes written to the destination
    crcChecks,   \* history: the comparisons with expect made so far
    pendingAtCheck, \* history: a comparison was made before the end
    copyResult,  \* "running" | "ok" | the error of io::copy
    \* ---- main and unzip (src/src/main.rs)
    files,       \* options.file: what each archive argument holds
    fileIdx,     \* the position of main's for loop (0 before the first file)
    mainResult,  \* "running" | "ok" | "err": what main has returned
    unzipPc,     \* "idle" | "fold" | "dispatch": where unzip stands
    entCount,    \* ZipEntries.count
    entPos,      \* the records ZipEntries has parsed
    acc,         \* the length of the Vec the try_fold fills
    accCap,      \* its capacity
    processed,   \* the positions of the files unzip was called on
    \* ---- zip-parser (src/zip-parser/src/lib.rs)
    archive,     \* what the buffer was built from (see BuildArchive)
    buf,         \* the mapped bytes of the archive, up to its trailing zeros
    bufZeros,    \* the number of zero bytes that follow buf in the mapping
    usizeBytes,  \* the width of usize on the host, in bytes
    found,       \* the result of EocdRecord32::find inside ZipArchive::parse
    zip,         \* the result of ZipArchive::parse
    entries,     \* the result of zip.entries(): the ZipEntries iterator
    yielded,     \* the items ZipEntries::next has returned, in order
    lastRead,    \* the last call of zip.read: [item, res]
    \* ---- the parallel extraction of the entries of one archive
    \*      (src/src/main.rs: unzip, do_entry, do_dir, do_file; util.rs: path_open)
    overwrite,   \* options.overwrite
    fsTree,      \* the tree under target_dir: path |-> directory or file
    tasks,       \* the materialized records, in the order of the Vec
    task,        \* per record: where its do_entry stands, and its result
    full,        \* the flag try_for_each raises at the first failure
    extractResult, \* "running" | "ok" | the error unzip returns
    runs,        \* how many times the archive was extracted into the root
    \* ---- dos2time on one record (src/src/util.rs)
    dosDate, dosTime, \* cfh.mod_date, cfh.mod_time
    timeResult,  \* the result of dos2time
    stampEntry   \* the record that carries them: where its do_entry stands

pathVars  == <<name, storeEmpty, pjPos, depth, pjResult, created>>
permVars  == <<madeByVer, extAttrsHi, extAttrsLo, permPc, appliedMode>>
copyVars  == <<uncompSize, decOut, decPos, takeLimit, hasher, expect, written, crcChecks,
               pendingAtCheck, copyResult>>
mainVars  == <<files, fileIdx, mainResult, unzipPc, entCount, entPos, acc,
               accCap, processed>>
parseVars == <<archive, buf, bufZeros, usizeBytes, found, zip, entries, yielded,
               lastRead>>
extractVars == <<overwrite, fsTree, tasks, task, full, extractResult, runs>>
timeVars == <<dosDate, dosTime, timeResult, stampEntry>>
vars == <<pathVars, permVars, copyVars, mainVars, parseVars, extractVars, timeVars>>

(***************************************************************************)
(* Generic helpers.                                                        *)
(***************************************************************************)
Min(a, b) == IF a <= b THEN a ELSE b

RECURSIVE Pow2(_)
Pow2(n) == IF n = 0 THEN 1 ELSE 2 * Pow2(n - 1)

\* All sequences over S of length 0..n.
SeqsUpTo(S, n) == UNION {[1..k -> S] : k \in 0..n}

IsPrefixOf(p, s) == Len(p) <= Len(s) /\ SubSeq(s, 1, Len(p)) = p

(***************************************************************************)
(* Idle values of each part.                                               *)
(***************************************************************************)
PathIdle ==
    /\ name = <<>> /\ storeEmpty = FALSE /\ pjPos = 0 /\ depth = 0
    /\ pjResult = "idle" /\ created = {}

PermIdle ==
    /\ madeByVer = 0 /\ extAttrsHi = 0 /\ extAttrsLo = 0
    /\ permPc = "idle" /\ appliedMode = -1

CopyIdle ==
    /\ uncompSize = 0
    /\ decOut = <<>> /\ decPos = 0 /\ takeLimit = 0 /\ hasher = {}
    /\ expect = {} /\ written = <<>> /\ crcChecks = 0
    /\ pendingAtCheck = FALSE /\ copyResult = "idle"

MainIdle ==
    /\ files = <<>> /\ fileIdx = 0 /\ mainResult = "idle" /\ unzipPc = "idle"
    /\ entCount = 0 /\ entPos = 0 /\ acc = 0 /\ accCap = 0 /\ processed = {}

ParseIdle ==
    /\ archive = [kind |-> "idle"] /\ buf = <<>> /\ bufZeros = 0 /\ usizeBytes = 8
    /\ found = [tag |-> "idle"]
    /\ zip = [tag |-> "idle"] /\ entries = [tag |-> "idle"]
    /\ yielded = <<>> /\ lastRead = [tag |-> "idle"]

ExtractIdle ==
    /\ overwrite = FALSE /\ fsTree = <<>> /\ tasks = <<>> /\ task = <<>>
    /\ full = FALSE /\ extractResult = "idle" /\ runs = 0

TimeIdle ==
    /\ dosDate = 0 /\ dosTime = 0 /\ timeResult = [tag |-> "idle"]
    /\ stampEntry = [pc |-> "idle"]

(***************************************************************************)
(* Part 1.  path_join, and the creation of the destination that follows    *)
(* it in do_dir / do_file.                                                 *)
(***************************************************************************)
\* Bounds of the names explored.
MaxNameLen == 7

\* The characters names are built from: the separator, the dot, a letter.
PathChars == {"/", ".", "a"}

\* The extraction root (target_dir), as components.
TargetDir == <<[kind |-> "RootDir", seg |-> <<>>], [kind |-> "Normal", seg |-> <<"t">>]>>

\* The segments of s between separators (empty segments included).
RECURSIVE SplitSegs(_, _)
SplitSegs(s, cur) ==
    IF s = <<>> THEN <<cur>>
    ELSE IF Head(s) = "/" THEN <<cur>> \o SplitSegs(Tail(s), <<>>)
    ELSE SplitSegs(Tail(s), Append(cur, Head(s)))

SegComponent(seg) ==
    IF seg = <<".", ".">> THEN [kind |-> "ParentDir", seg |-> seg]
    ELSE [kind |-> "Normal", seg |-> seg]

RECURSIVE BodyComponents(_)
BodyComponents(segs) ==
    IF segs = <<>> THEN <<>>
    ELSE IF Head(segs) = <<>> \/ Head(segs) = <<".">>
         THEN BodyComponents(Tail(segs))
         ELSE <<SegComponent(Head(segs))>> \o BodyComponents(Tail(segs))

\* std::path::Path::components() on a Unix path: a leading separator is
\* RootDir, a leading "." segment is CurDir, later "." and empty segments are
\* dropped, ".." is ParentDir, anything else is Normal.  (Prefix components
\* exist on Windows only.)
Components(s) ==
    LET segs == SplitSegs(s, <<>>)
        lead == IF s # <<>> /\ Head(s) = "/"
                    THEN <<[kind |-> "RootDir", seg |-> <<>>]>>
                ELSE IF Head(segs) = <<".">>
                    THEN <<[kind |-> "CurDir", seg |-> <<".">>]>>
                ELSE <<>>
    IN  lead \o BodyComponents(segs)

\* The closure of the try_fold in path_join: one component.
FoldStepNoLimit(d, next) ==
    CASE next.kind \in {"RootDir", "Prefix"} -> [err |-> "must relative path", depth |-> d]
      [] next.kind = "Normal" -> [err |-> "", depth |-> d + 1]
      [] next.kind = "ParentDir" -> [err |-> "", depth |-> IF d = 0 THEN 0 ELSE d - 1]
      [] OTHER -> [err |-> "", depth |-> d]

FoldStepNoRoot(d, next) ==
    CASE next.kind = "Normal" -> [err |-> "", depth |-> d + 1]
      [] next.kind = "ParentDir" ->
            IF d = 0 THEN [err |-> "filename over the path limit", depth |-> d]
            ELSE [err |-> "", depth |-> d - 1]
      [] OTHER -> [err |-> "", depth |-> d]

FoldStep(d, next) ==
    CASE next.kind \in {"RootDir", "Prefix"} -> [err |-> "must relative path", depth |-> d]
      [] next.kind = "Normal" -> [err |-> "", depth |-> d + 1]
      [] next.kind = "ParentDir" ->
            IF d = 0 THEN [err |-> "filename over the path limit", depth |-> d]
            ELSE [err |-> "", depth |-> d - 1]
      [] next.kind = "CurDir" -> [err |-> "", depth |-> d]

\* Path::join: an absolute path replaces the base, a relative one is appended.
PathBufJoin(base, comps) ==
    IF comps # <<>> /\ comps[1].kind \in {"RootDir", "Prefix"} THEN comps
    ELSE base \o comps

\* do_entry's classification of the entry as a directory.
IsDirEntry == name # <<>> /\ name[Len(name)] = "/" /\ storeEmpty

InitPath ==
    /\ name \in SeqsUpTo(PathChars, MaxNameLen)
    /\ storeEmpty \in BOOLEAN
    /\ pjPos = 0 /\ depth = 0 /\ pjResult = "running" /\ created = {}
    /\ PermIdle /\ CopyIdle /\ MainIdle /\ ParseIdle
    /\ ExtractIdle /\ TimeIdle

\* One iteration of path.components().try_fold(..) in path_join.
PathJoinStep ==
    /\ pjResult = "running"
    /\ pjPos < Len(Components(name))
    /\ LET r == FoldStep(depth, Components(name)[pjPos + 1])
       IN  /\ pjPos' = pjPos + 1
           /\ depth' = r.depth
           /\ pjResult' = IF r.err # "" THEN r.err ELSE "running"
    /\ UNCHANGED <<name, storeEmpty, created>>
    /\ UNCHANGED <<permVars, copyVars, mainVars, parseVars, extractVars, timeVars>>

\* The fold is over: path_join returns Ok(base.join(path)).
PathJoinReturn ==
    /\ pjResult = "running"
    /\ pjPos = Len(Components(name))
    /\ pjResult' = "ok"
    /\ UNCHANGED <<name, storeEmpty, pjPos, depth, created>>
    /\ UNCHANGED <<permVars, copyVars, mainVars, parseVars, extractVars, timeVars>>

\* do_dir's create_dir_all(target) / do_file's path_open(target): the
\* destination comes to exist.
CreateTarget ==
    /\ pjResult = "ok"
    /\ created = {}
    /\ created' = {[path |-> PathBufJoin(TargetDir, Components(name)),
                    dir |-> IsDirEntry]}
    /\ UNCHANGED <<name, storeEmpty, pjPos, depth, pjResult>>
    /\ UNCHANGED <<permVars, copyVars, mainVars, parseVars, extractVars, timeVars>>

NextPath == PathJoinStep \/ PathJoinReturn \/ CreateTarget

SpecPath == InitPath /\ [][NextPath]_vars


(***************************************************************************)
(* Part 2.  The permission bits applied to an extracted file.              *)
(***************************************************************************)
\* zip_parser::system::UNIX
UNIX == 3

\* Bit sets stand for unsigned machine words: bit i is in the set iff it is 1.
BitsOf(v) == {i \in 0..30 : (v \div Pow2(i)) % 2 = 1}

RECURSIVE FromBits(_)
FromBits(S) ==
    IF S = {} THEN 0
    ELSE LET i == CHOOSE x \in S : TRUE IN Pow2(i) + FromBits(S \ {i})

\* const SETUID_AND_SETGID: u32 = 0b11 << 9;
SETUID_AND_SETGID == 3 * Pow2(9)

\* const MASK: u32 = !SETUID_AND_SETGID;  (the set of its one-bits)
MASK == (0..31) \ BitsOf(SETUID_AND_SETGID)

\* sanitize_setuid: input.mode() & MASK
sanitize_setuid(mode) == FromBits(BitsOf(mode) \cap MASK)

\* The made_by_ver values explored: DOS and UNIX hosts, version 2.0 and 3.0.
MadeByVers == {20, UNIX * 256 + 20, UNIX * 256 + 30}

\* The file-type nibbles of st_mode explored (none, directory, regular file,
\* symbolic link); the twelve permission bits below them take every value.
FileTypes == {0, 4, 8, 10}

InitPerm ==
    /\ madeByVer \in MadeByVers
    /\ extAttrsHi \in {t * Pow2(12) + m : t \in FileTypes, m \in 0..(Pow2(12) - 1)}
    /\ extAttrsLo \in {0, 1}
    /\ permPc = "copied" /\ appliedMode = -1
    /\ PathIdle /\ CopyIdle /\ MainIdle /\ ParseIdle
    /\ ExtractIdle /\ TimeIdle

\* do_file, after the copy: the mode is applied when the record comes from a
\* UNIX host and carries external attributes.
\*   if cfh.ext_attrs != 0 && cfh.made_by_ver >> 8 == UNIX {
\*       fd.set_permissions(sanitize_setuid(from_mode(cfh.ext_attrs >> 16)))
SetPermissions ==
    /\ permPc = "copied"
    /\ permPc' = "done"
    /\ appliedMode' =
          IF (extAttrsHi # 0 \/ extAttrsLo # 0) /\ madeByVer \div 256 = UNIX
          THEN sanitize_setuid(extAttrsHi)
          ELSE -1
    /\ UNCHANGED <<madeByVer, extAttrsHi, extAttrsLo>>
    /\ UNCHANGED <<pathVars, copyVars, mainVars, parseVars, extractVars, timeVars>>

NextPerm == SetPermissions

SpecPerm == InitPerm /\ [][NextPerm]_vars

(***************************************************************************)
(* Part 3.  do_file's copy: io::copy(&mut Crc32Checker(Take(decoder)), fd). *)
(***************************************************************************)
\* Bounds: the longest decoder output, and the most bytes one read returns
\* (the model's stand-in for io::copy's buffer).
MaxStreamLen == 4
CopyBufLen == 2

\* The byte values decoder outputs are built from.
StreamBytes == {0, 97}

\* CRC-32 (IEEE 802.3, reflected), as crc32fast computes it; the 32-bit
\* register is the set of its one-bits.  POLY is 0xEDB88320.
POLY == {31, 30, 29, 27, 26, 24, 23, 21, 20, 19, 15, 9, 8, 5}
Xor(a, b) == (a \ b) \cup (b \ a)
Shr1(a) == {i - 1 : i \in a \ {0}}

RECURSIVE CrcShift(_, _)
CrcShift(reg, n) ==
    IF n = 0 THEN reg
    ELSE CrcShift(IF 0 \in reg THEN Xor(Shr1(reg), POLY) ELSE Shr1(reg), n - 1)

\* Hasher::new()
HasherNew == 0..31

\* Hasher::update(bytes)
RECURSIVE HasherUpdate(_, _)
HasherUpdate(reg, bytes) ==
    IF bytes = <<>> THEN reg
    ELSE HasherUpdate(CrcShift(Xor(reg, BitsOf(Head(bytes))), 8), Tail(bytes))

\* Hasher::finalize()
HasherFinalize(reg) == (0..31) \ reg

\* The inner decoder's read into a buffer of max bytes: 0 at end of stream,
\* otherwise some k >= 1 bytes, no more than fit and remain.
DecoderRead(out, pos, max, k) == Min(k, Min(max, Len(out) - pos))

\* io::Take::read without its limit.
TakeReadNoLimit(limit, bufLen, out, pos, k) ==
    [n |-> DecoderRead(out, pos, bufLen, k), limit |-> limit]

\* io::Take::read: nothing once the limit is used up, else an inner read of
\* at most limit bytes, which the limit is reduced by.
TakeRead(limit, bufLen, out, pos, k) ==
    IF limit = 0 THEN [n |-> 0, limit |-> 0]
    ELSE LET n == DecoderRead(out, pos, Min(bufLen, limit), k)
         IN  [n |-> n, limit |-> limit - n]

\* Crc32Checker::read that compares after every read.
Crc32CheckerReadEager(n, data, reg, exp) ==
    LET h == HasherUpdate(reg, data)
    IN  [hasher |-> h, checked |-> TRUE,
         err |-> IF HasherFinalize(h) # exp THEN "crc32 check failed" ELSE ""]

\* Crc32Checker::read, given the n bytes (data) its reader returned: at
\* n == 0 the finalized hash is compared with expect, otherwise the bytes
\* are hashed.
Crc32CheckerRead(n, data, reg, exp) ==
    IF n = 0
    THEN [hasher |-> reg, checked |-> TRUE,
          err |-> IF HasherFinalize(reg) # exp THEN "crc32 check failed" ELSE ""]
    ELSE [hasher |-> HasherUpdate(reg, data), checked |-> FALSE, err |-> ""]

\* The crc32 values of the record explored for a stream: the CRC of each of
\* its prefixes, and one value that is the CRC of none of them.
ExpectChoices(out) ==
    {HasherFinalize(HasherUpdate(HasherNew, SubSeq(out, 1, k))) : k \in 0..Len(out)}
        \cup {{0, 31}}

InitCopy ==
    /\ decOut \in SeqsUpTo(StreamBytes, MaxStreamLen)
    /\ uncompSize \in 0..(MaxStreamLen + 1)
    /\ takeLimit = uncompSize
    /\ expect \in ExpectChoices(decOut)
    /\ decPos = 0 /\ hasher = HasherNew /\ written = <<>>
    /\ crcChecks = 0 /\ pendingAtCheck = FALSE /\ copyResult = "running"
    /\ PathIdle /\ PermIdle /\ MainIdle /\ ParseIdle
    /\ ExtractIdle /\ TimeIdle

\* One iteration of io::copy's loop: a read through Crc32Checker, Take and
\* the decoder; an error ends the copy, 0 bytes end it with success, and n
\* bytes are written to the destination.  crcChecks counts the comparisons
\* made and pendingAtCheck records whether one was made while the reader
\* still had bytes to deliver or delivered bytes were not yet written.
CopyIteration ==
    /\ copyResult = "running"
    /\ \E k \in 1..CopyBufLen :
         LET t == TakeRead(takeLimit, CopyBufLen, decOut, decPos, k)
             data == SubSeq(decOut, decPos + 1, decPos + t.n)
             c == Crc32CheckerRead(t.n, data, hasher, expect)
         IN  /\ decPos' = decPos + t.n
             /\ takeLimit' = t.limit
             /\ hasher' = c.hasher
             /\ crcChecks' = IF c.checked THEN crcChecks + 1 ELSE crcChecks
             /\ pendingAtCheck' =
                   (pendingAtCheck \/
                    (c.checked /\ (t.n > 0 \/ Len(written) # decPos
                                   \/ (takeLimit > 0 /\ decPos < Len(decOut)))))
             /\ copyResult' = IF c.err # "" THEN c.err
                              ELSE IF t.n = 0 THEN "ok" ELSE "running"
             /\ written' = IF c.err = "" THEN written \o data ELSE written
    /\ UNCHANGED <<uncompSize, decOut, expect>>
    /\ UNCHANGED <<pathVars, permVars, mainVars, parseVars, extractVars, timeVars>>

NextCopy == CopyIteration

SpecCopy == InitCopy /\ [][NextCopy]_vars

(***************************************************************************)
(* Part 4.  main's loop over the archive arguments, and unzip.             *)
(***************************************************************************)
\* Bounds: the number of archive arguments, and the largest entry count.
MaxFiles == 2
MaxEntries == 130

\* let len = cmp::min(len, 128);
MaterializeCap == 128

\* What an archive argument can hold: a file that cannot be opened or whose
\* EOCDR does not parse, or count central-directory records of which the
\* badAt-th (0: none) does not parse and of which those in entryFails make
\* do_entry fail.
ArchiveKinds ==
    {[parse |-> "err", count |-> 0, badAt |-> 0, entryFails |-> {}]}
    \cup {[parse |-> "ok", count |-> c, badAt |-> b, entryFails |-> f] :
             c \in {0, 2, MaxEntries}, b \in {0, 2, MaxEntries}, f \in {{}, {1}}}

ArchiveInputs ==
    {a \in ArchiveKinds : a.badAt <= a.count /\ (a.count = 0 => a.entryFails = {})}

\* The `?` of main's loop dropped: the loop goes on after a failed unzip.
AfterUnzipIgnoring(result) == "running"

\* unzip(..)?; in main's loop: an Err makes main return it.
AfterUnzip(result) == IF result = "err" THEN "err" ELSE "running"

\* The try_fold that also stops once len records are collected.
TryFoldEndsAtCap(remaining, accLen) == remaining = 0 \/ accLen >= MaterializeCap

\* zip.entries()?.try_fold(..): the fold ends when ZipEntries::next returns
\* None, that is when self.count.checked_sub(1) fails.
TryFoldEnds(remaining, accLen) == remaining = 0

\* Vec::push's growth of a full vector (amortized doubling, at least 4).
VecGrow(cap, len) ==
    IF len < cap THEN cap
    ELSE IF 2 * cap >= 4 THEN 2 * cap ELSE 4

InitMain ==
    /\ files \in UNION {[1..n -> ArchiveInputs] : n \in 1..MaxFiles}
    /\ fileIdx = 0 /\ mainResult = "running" /\ unzipPc = "idle"
    /\ entCount = 0 /\ entPos = 0 /\ acc = 0 /\ accCap = 0 /\ processed = {}
    /\ PathIdle /\ PermIdle /\ CopyIdle /\ ParseIdle
    /\ ExtractIdle /\ TimeIdle

\* main's loop takes the next file and calls unzip: open, mmap,
\* ZipArchive::parse, cd_entries, zip.entries(), Vec::with_capacity(len).
StartUnzip ==
    /\ mainResult = "running" /\ unzipPc = "idle"
    /\ fileIdx < Len(files)
    /\ fileIdx' = fileIdx + 1
    /\ processed' = processed \cup {fileIdx + 1}
    /\ LET f == files[fileIdx + 1]
       IN  IF f.parse = "err"
           THEN /\ mainResult' = AfterUnzip("err")
                /\ UNCHANGED <<unzipPc, entCount, entPos, acc, accCap>>
           ELSE /\ unzipPc' = "fold"
                /\ entCount' = f.count
                /\ entPos' = 0
                /\ acc' = 0
                /\ accCap' = Min(f.count, MaterializeCap)
                /\ UNCHANGED mainResult
    /\ UNCHANGED files
    /\ UNCHANGED <<pathVars, permVars, copyVars, parseVars, extractVars, timeVars>>

\* One iteration of the try_fold over zip.entries(): the end of the
\* entries, a record that does not parse (unzip returns the error), or a
\* record pushed onto the vector.
MaterializeNext ==
    /\ mainResult = "running" /\ unzipPc = "fold"
    /\ LET f == files[fileIdx]
       IN  IF TryFoldEnds(entCount, acc)
           THEN /\ unzipPc' = "dispatch"
                /\ UNCHANGED <<mainResult, entCount, entPos, acc, accCap>>
           ELSE IF f.badAt = entPos + 1
           THEN /\ mainResult' = AfterUnzip("err")
                /\ unzipPc' = "idle"
                /\ UNCHANGED <<entCount, entPos, acc, accCap>>
           ELSE /\ entCount' = entCount - 1
                /\ entPos' = entPos + 1
                /\ acc' = acc + 1
                /\ accCap' = VecGrow(accCap, acc)
                /\ UNCHANGED <<mainResult, unzipPc>>
    /\ UNCHANGED <<files, fileIdx, processed>>
    /\ UNCHANGED <<pathVars, permVars, copyVars, parseVars, extractVars, timeVars>>

\* .par_iter().try_for_each(do_entry)?: every materialized record is handed
\* to do_entry; a failure of one is unzip's result.
Dispatch ==
    /\ mainResult = "running" /\ unzipPc = "dispatch"
    /\ unzipPc' = "idle"
    /\ mainResult' =
          AfterUnzip(IF files[fileIdx].entryFails \cap (1..acc) # {}
                     THEN "err" ELSE "ok")
    /\ UNCHANGED <<files, fileIdx, entCount, entPos, acc, accCap, processed>>
    /\ UNCHANGED <<pathVars, permVars, copyVars, parseVars, extractVars, timeVars>>

\* The loop is over: main returns Ok(()).
MainReturn ==
    /\ mainResult = "running" /\ unzipPc = "idle"
    /\ fileIdx = Len(files)
    /\ mainResult' = "ok"
    /\ UNCHANGED <<files, fileIdx, unzipPc, entCount, entPos, acc, accCap, processed>>
    /\ UNCHANGED <<pathVars, permVars, copyVars, parseVars, extractVars, timeVars>>

NextMain == StartUnzip \/ MaterializeNext \/ Dispatch \/ MainReturn

SpecMain == InitMain /\ [][NextMain]_vars

(***************************************************************************)
(* Part 5.  The zip-parser crate over the byte buffer buf.                 *)
(*                                                                         *)
(* A Buf (a slice of the mapping) is [off, len]: len bytes starting at the *)
(* 0-based offset off of buf.  A u16 is a number; a u32 or u64 is the      *)
(* tuple of its little-endian bytes, so that all 64 bits are kept; a usize *)
(* is a number, Huge standing for every value of 2^24 or more (no buffer   *)
(* explored is that long, and a usize is only ever compared with a length  *)
(* or counted down).  A result is [tag |-> "Ok", ..], [tag |-> "Err",      *)
(* err |-> e], [tag |-> "Panic"] where an index expression of the code     *)
(* would abort, or [tag |-> "Diverge"] where a loop of the code comes back *)
(* to a state it was in and so never ends.                                 *)
(***************************************************************************)
BufLen == Len(buf) + bufZeros
ByteAt(i) == IF i < Len(buf) THEN buf[i + 1] ELSE 0
WholeBuf == [off |-> 0, len |-> BufLen]
Bytes(sl) == [i \in 1..sl.len |-> ByteAt(sl.off + i - 1)]

Err(e) == [tag |-> "Err", err |-> e]
Panic == [tag |-> "Panic"]
Diverge == [tag |-> "Diverge"]
None == [tag |-> "None"]

Huge == Pow2(24)
U32MAX == <<255, 255, 255, 255>>

\* u16::from_le_bytes
U16(bs) == bs[1] + 256 * bs[2]

\* The number a little-endian u32 or u64 holds, as a usize value.
Sat(bs) ==
    IF \E i \in 4..Len(bs) : bs[i] # 0 THEN Huge
    ELSE bs[1] + 256 * bs[2] + 65536 * bs[3]

\* n.into(): a u32 widened to u64.
Widen(bs) == bs \o <<0, 0, 0, 0>>

\* value.try_into() to usize: fails when the value does not fit the host's
\* usize.
TryUsize(bs) ==
    IF \E i \in (usizeBytes + 1)..Len(bs) : bs[i] # 0 THEN None
    ELSE [tag |-> "Some", val |-> Sat(bs)]

\* usize::checked_sub(1) on a counter.
Pred(n) == IF n = Huge THEN Huge ELSE n - 1

\* slice.get(offset..)
GetFrom(sl, offset) ==
    IF offset <= sl.len
    THEN [tag |-> "Some", val |-> [off |-> sl.off + offset, len |-> sl.len - offset]]
    ELSE None

\* slice.get(..size)
GetTo(sl, size) ==
    IF size <= sl.len THEN [tag |-> "Some", val |-> [off |-> sl.off, len |-> size]]
    ELSE None

\* util::take
take(input, n) ==
    IF input.len >= n
    THEN [tag |-> "Ok", rest |-> [off |-> input.off + n, len |-> input.len - n],
          out |-> [off |-> input.off, len |-> n]]
    ELSE Err("Eof")

\* Bind(v, F) is F(v) with v evaluated once: the `let` of a value that the
\* lines after it use several times.
Bind(v, F(_)) == CHOOSE y \in {F(x) : x \in {v}} : TRUE

\* util::read_u16 / read_u32 / read_u64 (w bytes), the value as its bytes.
read_le(input, w) ==
    IF input.len >= w
    THEN [tag |-> "Ok", rest |-> [off |-> input.off + w, len |-> input.len - w],
          val |-> Bytes([off |-> input.off, len |-> w])]
    ELSE Err("Eof")

RECURSIVE SumTo(_, _)
SumTo(widths, k) == IF k = 0 THEN 0 ELSE widths[k] + SumTo(widths, k - 1)

\* A run of read_u16 / read_u32 / read_u64 calls, each followed by `?`: the
\* values read, or Eof when one of the reads finds the input too short
\* (every read fails the same way, so the run fails iff the input is
\* shorter than the fields together).
read_fields(input, widths) ==
    IF input.len < SumTo(widths, Len(widths)) THEN Err("Eof")
    ELSE [tag |-> "Ok",
          rest |-> [off |-> input.off + SumTo(widths, Len(widths)),
                    len |-> input.len - SumTo(widths, Len(widths))],
          vals |-> [i \in 1..Len(widths) |->
                       Bytes([off |-> input.off + SumTo(widths, i - 1),
                              len |-> widths[i]])]]

\* util::rfind: the positions of haystack whose byte is the needle's first
\* (the filter), among them those at which the whole needle lies within the
\* haystack and matches; the iteration is reversed, so the greatest such
\* position is returned.  -1 stands for None.
rfind_hits(haystack, needle) ==
    {i \in {k \in 0..(haystack.len - 1) : ByteAt(haystack.off + k) = needle[1]} :
        /\ GetTo([off |-> haystack.off + i, len |-> haystack.len - i],
                 Len(needle)).tag = "Some"
        /\ Bytes([off |-> haystack.off + i, len |-> Len(needle)]) = needle}

rfind(haystack, needle) ==
    IF needle = <<>> THEN -1
    ELSE Bind(rfind_hits(haystack, needle), LAMBDA hits :
        IF hits = {} THEN -1 ELSE CHOOSE i \in hits : \A j \in hits : j <= i)

\* The signatures: 'P' 'K' and two bytes.
EOCDR_SIGNATURE == <<80, 75, 5, 6>>
EOCDR64_SIGNATURE == <<80, 75, 6, 6>>
LOCATOR_SIGNATURE == <<80, 75, 6, 7>>
CFH_SIGNATURE == <<80, 75, 1, 2>>
LFH_SIGNATURE == <<80, 75, 3, 4>>
MAX_BACK_OFFSET == 1024 * 128
LOCATOR_LEN == 4 + 4 + 8 + 4
ID_ZIP64_EXTENDED_INFO == 1

\* A window one byte longer than MAX_BACK_OFFSET.
max_back_buf_longer ==
    IF BufLen >= MAX_BACK_OFFSET + 1
    THEN [off |-> BufLen - (MAX_BACK_OFFSET + 1), len |-> MAX_BACK_OFFSET + 1]
    ELSE WholeBuf

\* The window EocdRecord32::find searches: the last MAX_BACK_OFFSET bytes.
max_back_buf ==
    IF BufLen >= MAX_BACK_OFFSET
    THEN [off |-> BufLen - MAX_BACK_OFFSET, len |-> MAX_BACK_OFFSET]
    ELSE WholeBuf

\* EocdRecord32::find, from the slice at the signature found.
EocdRecord32_read(eocdr_buf) ==
    Bind(read_fields(eocdr_buf, <<4, 2, 2, 2, 2, 4, 4, 2>>), LAMBDA f :
        IF f.tag = "Err" THEN f
        ELSE IF take(f.rest, U16(f.vals[8])).tag = "Err" THEN Err("Eof")
        ELSE [tag |-> "Ok",
              eocdr |-> [sig |-> f.vals[1],
                         disk_nbr |-> U16(f.vals[2]),
                         cd_start_disk |-> U16(f.vals[3]),
                         disk_cd_entries |-> U16(f.vals[4]),
                         cd_entries |-> U16(f.vals[5]),
                         cd_size |-> f.vals[6],
                         cd_offset |-> f.vals[7],
                         comment |-> take(f.rest, U16(f.vals[8])).out],
              offset |-> BufLen - eocdr_buf.len])

\* EocdRecord32::find: Ok with the record and its offset in the buffer.
EocdRecord32_find ==
    Bind(rfind(max_back_buf, EOCDR_SIGNATURE), LAMBDA eocdr_offset :
        IF eocdr_offset = -1 THEN Err("BadEocdr")
        ELSE EocdRecord32_read([off |-> max_back_buf.off + eocdr_offset,
                                len |-> max_back_buf.len - eocdr_offset]))

\* buf.get(offset..).filter(|buf| &buf[..SIG.len()] == SIG).ok_or(BadEocdr):
\* the index expression aborts on a slice shorter than the signature.
GetSigned(offset, sig) ==
    IF GetFrom(WholeBuf, offset).tag = "None" THEN Err("BadEocdr")
    ELSE IF BufLen - offset < Len(sig) THEN Panic
    ELSE IF Bytes([off |-> offset, len |-> Len(sig)]) # sig THEN Err("BadEocdr")
    ELSE [tag |-> "Ok", val |-> GetFrom(WholeBuf, offset).val]

\* The fields of the ZIP64 EOCDR after its size: input is clipped to size.
EocdRecord64_fields(sig, size, input) ==
    Bind(read_fields(input, <<2, 2, 4, 4, 8, 8, 8, 8>>), LAMBDA f :
        IF f.tag = "Err" THEN f
        ELSE [tag |-> "Ok",
              eocdr |-> [sig |-> sig,
                         size |-> size,
                         made_by_ver |-> U16(f.vals[1]),
                         extract_ver |-> U16(f.vals[2]),
                         disk_nbr |-> f.vals[3],
                         cd_start_disk |-> f.vals[4],
                         disk_cd_entries |-> f.vals[5],
                         cd_entries |-> f.vals[6],
                         cd_size |-> f.vals[7],
                         cd_offset |-> f.vals[8],
                         ext_data_sector |-> f.rest]])

\* The ZIP64 EOCDR read from the slice at the locator's offset.
EocdRecord64_read(eocdr_buf) ==
    Bind(read_fields(eocdr_buf, <<4, 8>>), LAMBDA h :
        IF h.tag = "Err" THEN h
        ELSE IF TryUsize(h.vals[2]).tag = "None" THEN Err("OffsetOverflow")
        ELSE IF GetTo(h.rest, TryUsize(h.vals[2]).val).tag = "None"
             THEN Err("BadEocdr")
        ELSE EocdRecord64_fields(h.vals[1], TryUsize(h.vals[2]).val,
                                 GetTo(h.rest, TryUsize(h.vals[2]).val).val))

\* EocdRecord64::find, from the locator found before the EOCDR.
EocdRecord64_locate(locator_buf) ==
    Bind(read_fields(locator_buf, <<4, 4, 8, 4>>), LAMBDA l :
        IF l.tag = "Err" THEN l
        ELSE IF TryUsize(l.vals[3]).tag = "None" THEN Err("OffsetOverflow")
        ELSE Bind(GetSigned(TryUsize(l.vals[3]).val, EOCDR64_SIGNATURE),
                  LAMBDA eocdr_buf :
                      IF eocdr_buf.tag # "Ok" THEN eocdr_buf
                      ELSE EocdRecord64_read(eocdr_buf.val)))

\* EocdRecord64::find
EocdRecord64_find(eocdr_offset) ==
    IF eocdr_offset < LOCATOR_LEN THEN Err("OffsetOverflow")
    ELSE Bind(GetSigned(eocdr_offset - LOCATOR_LEN, LOCATOR_SIGNATURE),
              LAMBDA locator_buf :
                  IF locator_buf.tag # "Ok" THEN locator_buf
                  ELSE EocdRecord64_locate(locator_buf.val))

\* ExtensibleDataField::read
ExtensibleDataField_read(input) ==
    Bind(read_fields(input, <<2, 2>>), LAMBDA h :
        IF h.tag = "Err" THEN h
        ELSE IF take(h.rest, U16(h.vals[2])).tag = "Err" THEN Err("Eof")
        ELSE [tag |-> "Ok", rest |-> take(h.rest, U16(h.vals[2])).rest,
              field |-> [id |-> U16(h.vals[1]),
                         data |-> take(h.rest, U16(h.vals[2])).out]])

\* The loop of CentralFileHeader::parse that looks for the ZIP64
\* extended-information field: every iteration reads a field from `extra`
\* (ExtensibleDataField::read(extra)) and makes what follows that field the
\* new `input`.  An iteration that leaves `input` as it found it repeats for
\* ever.
RECURSIVE zip64_extbuf_scan(_, _)
zip64_extbuf_scan(extra, input) ==
    IF input.len = 0 THEN None
    ELSE Bind(ExtensibleDataField_read(extra), LAMBDA r :
        IF r.tag = "Err" THEN r
        ELSE IF r.field.id = ID_ZIP64_EXTENDED_INFO
             THEN [tag |-> "Some", val |-> r.field.data]
        ELSE IF r.rest = input THEN Diverge
        ELSE zip64_extbuf_scan(extra, r.rest))

\* The macro checkext!: a 32-bit value that is the sentinel is replaced, in
\* a ZIP64 archive whose record has the ZIP64 field, by the next u64 of that
\* field; any other value is widened.
checkext(zip64_extbuf, value, is_zip64) ==
    IF zip64_extbuf.tag = "Some" /\ value = U32MAX /\ is_zip64
    THEN IF zip64_extbuf.val.len < 8 THEN Err("Eof")
         ELSE [tag |-> "Ok", n |-> read_le(zip64_extbuf.val, 8).val,
               zip64_extbuf |-> [tag |-> "Some",
                                 val |-> read_le(zip64_extbuf.val, 8).rest]]
    ELSE [tag |-> "Ok", n |-> Widen(value), zip64_extbuf |-> zip64_extbuf]

\* The record CentralFileHeader::parse returns.
CentralFileHeader_make(f, spans, uncomp_size, comp_size, lfh_offset) ==
    [made_by_ver |-> U16(f.vals[1]),
     extract_ver |-> U16(f.vals[2]),
     gp_flag |-> U16(f.vals[3]),
     method |-> U16(f.vals[4]),
     mod_time |-> U16(f.vals[5]),
     mod_date |-> U16(f.vals[6]),
     crc32 |-> f.vals[7],
     comp_size |-> comp_size,
     uncomp_size |-> uncomp_size,
     disk_nbr_start |-> U16(f.vals[13]),
     int_attrs |-> U16(f.vals[14]),
     ext_attrs |-> f.vals[15],
     lfh_offset |-> lfh_offset,
     name |-> spans.name,
     extra |-> spans.extra,
     comment |-> spans.comment]

\* CentralFileHeader::parse from the search for the ZIP64 field on: the
\* three checkext! in the order uncomp_size, comp_size, lfh_offset.
CentralFileHeader_finish(f, spans, is_zip64) ==
    Bind(zip64_extbuf_scan(spans.extra, spans.extra), LAMBDA z0 :
        IF z0.tag \in {"Err", "Diverge"} THEN z0
        ELSE Bind(checkext(z0, f.vals[9], is_zip64), LAMBDA u :
            IF u.tag = "Err" THEN u
            ELSE Bind(checkext(u.zip64_extbuf, f.vals[8], is_zip64), LAMBDA c :
                IF c.tag = "Err" THEN c
                ELSE Bind(checkext(c.zip64_extbuf, f.vals[16], is_zip64), LAMBDA l :
                    IF l.tag = "Err" THEN l
                    ELSE [tag |-> "Ok", rest |-> spans.rest,
                          cfh |-> CentralFileHeader_make(f, spans, u.n, c.n, l.n)]))))

\* take(input, name_len)?, take(input, extra_len)?, take(input, comment_len)?
\* (lengths of two names for a local header): Eof when the input is shorter
\* than the spans together.
take_spans(input, name_len, extra_len, comment_len) ==
    IF input.len < name_len + extra_len + comment_len THEN Err("Eof")
    ELSE [tag |-> "Ok",
          name |-> [off |-> input.off, len |-> name_len],
          extra |-> [off |-> input.off + name_len, len |-> extra_len],
          comment |-> [off |-> input.off + name_len + extra_len, len |-> comment_len],
          rest |-> [off |-> input.off + name_len + extra_len + comment_len,
                    len |-> input.len - name_len - extra_len - comment_len]]

\* CentralFileHeader::parse
CentralFileHeader_parse(input, is_zip64) ==
    IF input.len < Len(CFH_SIGNATURE) THEN Err("Eof")
    ELSE IF Bytes([off |-> input.off, len |-> Len(CFH_SIGNATURE)]) # CFH_SIGNATURE
         THEN Err("BadCfh")
    ELSE Bind(read_fields(take(input, Len(CFH_SIGNATURE)).rest,
                          <<2, 2, 2, 2, 2, 2, 4, 4, 4, 2, 2, 2, 2, 2, 4, 4>>),
              LAMBDA f :
        IF f.tag = "Err" THEN f
        ELSE Bind(take_spans(f.rest, U16(f.vals[10]), U16(f.vals[11]), U16(f.vals[12])),
                  LAMBDA spans :
            IF spans.tag = "Err" THEN spans
            ELSE CentralFileHeader_finish(f, spans, is_zip64)))

\* LocalFileHeader::parse
LocalFileHeader_parse(input) ==
    IF input.len < Len(LFH_SIGNATURE) THEN Err("Eof")
    ELSE IF Bytes([off |-> input.off, len |-> Len(LFH_SIGNATURE)]) # LFH_SIGNATURE
         THEN Err("BadLfh")
    ELSE Bind(read_fields(take(input, Len(LFH_SIGNATURE)).rest,
                          <<2, 2, 2, 2, 2, 4, 4, 4, 2, 2>>),
              LAMBDA f :
        IF f.tag = "Err" THEN f
        ELSE Bind(take_spans(f.rest, U16(f.vals[9]), U16(f.vals[10]), 0),
                  LAMBDA spans :
            IF spans.tag = "Err" THEN spans
            ELSE [tag |-> "Ok", rest |-> spans.rest,
                  lfh |-> [extract_ver |-> U16(f.vals[1]),
                           gp_flag |-> U16(f.vals[2]),
                           method |-> U16(f.vals[3]),
                           mod_time |-> U16(f.vals[4]),
                           mod_date |-> U16(f.vals[5]),
                           crc32 |-> f.vals[6],
                           comp_size |-> f.vals[7],
                           uncomp_size |-> f.vals[8],
                           name |-> spans.name,
                           extra |-> spans.extra]]))

\* ZipArchive::parse after EocdRecord32::find(buf) returned r: Ok with the
\* EocdRecord (kind "Zip" or "Zip64").
ZipArchive_parse_found(r) ==
    IF r.tag # "Ok" THEN r
    ELSE IF r.eocdr.disk_cd_entries # r.eocdr.cd_entries THEN Err("Unsupported")
    ELSE IF r.eocdr.cd_offset # U32MAX
         THEN [tag |-> "Ok", kind |-> "Zip", eocdr |-> r.eocdr]
    ELSE Bind(EocdRecord64_find(r.offset), LAMBDA r64 :
        IF r64.tag # "Ok" THEN r64
        ELSE [tag |-> "Ok", kind |-> "Zip64", eocdr |-> r64.eocdr])

\* ZipArchive::parse
ZipArchive_parse == Bind(EocdRecord32_find, LAMBDA r : ZipArchive_parse_found(r))

\* EocdRecord::cd_offset
cd_offset(z) ==
    IF z.kind = "Zip" THEN [tag |-> "Some", val |-> Sat(z.eocdr.cd_offset)]
    ELSE TryUsize(z.eocdr.cd_offset)

\* EocdRecord::cd_entries
cd_entries(z) ==
    IF z.kind = "Zip" THEN [tag |-> "Some", val |-> z.eocdr.cd_entries]
    ELSE TryUsize(z.eocdr.cd_entries)

\* ZipArchive::entries
ZipArchive_entries(z) ==
    IF cd_offset(z).tag = "None" THEN Err("OffsetOverflow")
    ELSE IF GetFrom(WholeBuf, cd_offset(z).val).tag = "None" THEN Err("Eof")
    ELSE IF cd_entries(z).tag = "None" THEN Err("OffsetOverflow")
    ELSE [tag |-> "Ok", buf |-> GetFrom(WholeBuf, cd_offset(z).val).val,
          count |-> cd_entries(z).val, is_zip64 |-> (z.kind = "Zip64")]

\* ZipEntries::next: the item returned (for a record, with the offset at
\* which it starts) and the iterator after the call.
ZipEntries_next(it) ==
    IF it.count = 0 THEN [item |-> None, it |-> it]
    ELSE Bind(CentralFileHeader_parse(it.buf, it.is_zip64), LAMBDA r :
        IF r.tag # "Ok" THEN [item |-> r, it |-> it]
        ELSE [item |-> [tag |-> "Ok", cfh |-> r.cfh, at |-> it.buf.off],
              it |-> [it EXCEPT !.buf = r.rest, !.count = Pred(it.count)]])

\* ZipArchive::read, had it taken the size of the span from the local
\* header.
ZipArchive_read_local_size(cfh) ==
    IF TryUsize(cfh.lfh_offset).tag = "None" THEN Err("OffsetOverflow")
    ELSE IF GetFrom(WholeBuf, TryUsize(cfh.lfh_offset).val).tag = "None"
         THEN Err("Eof")
    ELSE Bind(LocalFileHeader_parse(GetFrom(WholeBuf, TryUsize(cfh.lfh_offset).val).val),
              LAMBDA h :
        IF h.tag = "Err" THEN h
        ELSE IF TryUsize(h.lfh.comp_size).tag = "None" THEN Err("OffsetOverflow")
        ELSE IF take(h.rest, TryUsize(h.lfh.comp_size).val).tag = "Err" THEN Err("Eof")
        ELSE [tag |-> "Ok", lfh |-> h.lfh,
              buf |-> take(h.rest, TryUsize(h.lfh.comp_size).val).out])

\* ZipArchive::read
ZipArchive_read(cfh) ==
    IF TryUsize(cfh.lfh_offset).tag = "None" THEN Err("OffsetOverflow")
    ELSE IF GetFrom(WholeBuf, TryUsize(cfh.lfh_offset).val).tag = "None"
         THEN Err("Eof")
    ELSE Bind(LocalFileHeader_parse(GetFrom(WholeBuf, TryUsize(cfh.lfh_offset).val).val),
              LAMBDA h :
        IF h.tag = "Err" THEN h
        ELSE IF TryUsize(cfh.comp_size).tag = "None" THEN Err("OffsetOverflow")
        ELSE IF take(h.rest, TryUsize(cfh.comp_size).val).tag = "Err" THEN Err("Eof")
        ELSE [tag |-> "Ok", lfh |-> h.lfh,
              buf |-> take(h.rest, TryUsize(cfh.comp_size).val).out])

(***************************************************************************)
(* The archives explored.  An archive is written from a description        *)
(* (entries, ZIP64 or not, comment) the way a ZIP writer lays it out:      *)
(* local headers and payloads, the central directory, the ZIP64 EOCDR and  *)
(* its locator when the archive is ZIP64, the EOCDR.  A buffer is such an  *)
(* archive as written, or cut short, or with one field overwritten, or     *)
(* followed by zero bytes.                                                 *)
(***************************************************************************)
\* Bounds: the entries of an archive, and the calls of ZipEntries::next.
MaxCdEntries == 2
MaxNextCalls == 3

\* The little-endian bytes of n in w bytes.
RECURSIVE Le(_, _)
Le(n, w) == IF w = 0 THEN <<>> ELSE <<n % 256>> \o Le(n \div 256, w - 1)

\* What the extra span of a central-directory record holds: nothing, the
\* ZIP64 field, another field (id 0x5455), both in either order, or two
\* fields neither of which is the ZIP64 field (ids 0x5455 and 0x7875).
ExtraKinds == {"none", "z64", "other", "other_z64", "z64_other", "other_other"}
SizeFields == <<"uncomp", "comp", "lfh">>

\* The first entry of an archive takes every extra layout and every set of
\* 32-bit fields holding the sentinel; the entries after it are plain.
FirstEntries ==
    {[name |-> <<97>>, payload |-> <<97, 98>>, extraKind |-> k, sentinels |-> m] :
        k \in ExtraKinds, m \in SUBSET {"uncomp", "comp", "lfh"}}
PlainDir == [name |-> <<100, 47>>, payload |-> <<>>, extraKind |-> "none", sentinels |-> {}]
PlainFile == [name |-> <<98>>, payload |-> <<99>>, extraKind |-> "none", sentinels |-> {}]

EntryListsOf(first, n) ==
    [i \in 1..n |-> IF i = 1 THEN first ELSE IF i % 2 = 0 THEN PlainDir ELSE PlainFile]

\* zip64: "no", or how the EOCDR tells: "offset" (cd_offset is the sentinel)
\* or "count" (the entry counts are the sentinel 0xFFFF).
ArchiveDescs ==
    {[entries |-> l, zip64 |-> z, comment |-> c] :
        l \in {<<>>} \cup {EntryListsOf(f, n) : f \in FirstEntries, n \in 1..MaxCdEntries},
        z \in {"no", "offset", "count"},
        c \in {<<>>}}

\* The 64-bit values the ZIP64 field of an entry holds: the payload length
\* for the compressed size, a value above 4 GiB for the uncompressed size,
\* the offset of the local header.
Uncomp64(e) == <<Len(e.payload), 0, 0, 0, 7, 0, 0, 0>>
Comp64(e) == Le(Len(e.payload), 8)
Lfh64(off) == Le(off, 8)

Zip64FieldData(e, off) ==
    (IF "uncomp" \in e.sentinels THEN Uncomp64(e) ELSE <<>>)
    \o (IF "comp" \in e.sentinels THEN Comp64(e) ELSE <<>>)
    \o (IF "lfh" \in e.sentinels THEN Lfh64(off) ELSE <<>>)

Zip64Field(e, off) ==
    Le(ID_ZIP64_EXTENDED_INFO, 2) \o Le(Len(Zip64FieldData(e, off)), 2)
        \o Zip64FieldData(e, off)
OtherField == Le(21589, 2) \o Le(1, 2) \o <<3>>
OtherField2 == Le(30837, 2) \o Le(1, 2) \o <<1>>

ExtraBytes(e, off) ==
    CASE e.extraKind = "none" -> <<>>
      [] e.extraKind = "z64" -> Zip64Field(e, off)
      [] e.extraKind = "other" -> OtherField
      [] e.extraKind = "other_z64" -> OtherField \o Zip64Field(e, off)
      [] e.extraKind = "z64_other" -> Zip64Field(e, off) \o OtherField
      [] e.extraKind = "other_other" -> OtherField \o OtherField2

Size32(e, f, n) == IF f \in e.sentinels THEN U32MAX ELSE Le(n, 4)

LocalBytes(e) ==
    LFH_SIGNATURE \o Le(20, 2) \o Le(0, 2) \o Le(0, 2) \o Le(0, 2) \o Le(33, 2)
        \o Le(0, 4) \o Size32(e, "comp", Len(e.payload))
        \o Size32(e, "uncomp", Len(e.payload))
        \o Le(Len(e.name), 2) \o Le(0, 2) \o e.name \o e.payload

CentralBytes(e, off) ==
    CFH_SIGNATURE \o Le(UNIX * 256 + 20, 2) \o Le(20, 2) \o Le(0, 2) \o Le(0, 2)
        \o Le(0, 2) \o Le(33, 2) \o Le(0, 4)
        \o Size32(e, "comp", Len(e.payload))
        \o Size32(e, "uncomp", Len(e.payload))
        \o Le(Len(e.name), 2) \o Le(Len(ExtraBytes(e, off)), 2) \o Le(0, 2)
        \o Le(0, 2) \o Le(0, 2) \o Le(0, 4) \o Size32(e, "lfh", off)
        \o e.name \o ExtraBytes(e, off)

RECURSIVE LocalsOf(_)
LocalsOf(es) == IF es = <<>> THEN <<>> ELSE LocalBytes(Head(es)) \o LocalsOf(Tail(es))

RECURSIVE CentralsOf(_, _)
CentralsOf(es, off) ==
    IF es = <<>> THEN <<>>
    ELSE CentralBytes(Head(es), off)
            \o CentralsOf(Tail(es), off + Len(LocalBytes(Head(es))))

\* The archive written from description d, with the offsets of its parts.
BuildArchive(d) ==
    LET locals == LocalsOf(d.entries)
        cd == CentralsOf(d.entries, 0)
        n == Len(d.entries)
        cdOff == Len(locals)
        z64Off == cdOff + Len(cd)
        z64 == IF d.zip64 = "no" THEN <<>>
               ELSE EOCDR64_SIGNATURE \o Le(44, 8) \o Le(UNIX * 256 + 45, 2)
                       \o Le(45, 2) \o Le(0, 4) \o Le(0, 4) \o Le(n, 8) \o Le(n, 8)
                       \o Le(Len(cd), 8) \o Le(cdOff, 8)
                       \o LOCATOR_SIGNATURE \o Le(0, 4) \o Le(z64Off, 8) \o Le(1, 4)
        count16 == IF d.zip64 = "count" THEN <<255, 255>> ELSE Le(n, 2)
        eocdr == EOCDR_SIGNATURE \o Le(0, 2) \o Le(0, 2) \o count16 \o count16
                    \o Le(Len(cd), 4)
                    \o (IF d.zip64 = "offset" THEN U32MAX ELSE Le(cdOff, 4))
                    \o Le(Len(d.comment), 2) \o d.comment
    IN  [bytes |-> locals \o cd \o z64 \o eocdr,
         cdOff |-> cdOff, z64Off |-> z64Off,
         locOff |-> z64Off + 56,
         eocdrOff |-> z64Off + Len(z64)]

\* A buffer cut to its first k bytes.
Truncate(bytes, k) == SubSeq(bytes, 1, k)

\* A buffer with the bytes val written at offset at.
Overwrite(bytes, at, val) ==
    [i \in 1..Len(bytes) |->
        IF i > at /\ i <= at + Len(val) THEN val[i - at] ELSE bytes[i]]

\* The values written over an offset, size or count field of w bytes in a
\* buffer of len bytes: around 0, around the buffer's end, and the largest.
FieldValues(len, w) ==
    {Le(v, w) : v \in {0, 1, len - 4, len - 3, len - 1, len, len + 1}}
        \cup {[i \in 1..w |-> 255]}

\* The descriptions whose buffers are also cut short and overwritten: a
\* plain archive and a ZIP64 archive, each with MaxCdEntries entries.
MutatedDescs ==
    {[entries |-> EntryListsOf([name |-> <<97>>, payload |-> <<97, 98>>,
                                extraKind |-> k, sentinels |-> m], MaxCdEntries),
      zip64 |-> z, comment |-> <<>>] :
        k \in {"z64"}, m \in {{"uncomp", "comp", "lfh"}}, z \in {"no", "offset"}}

\* The fields overwritten: [at, w], the offset and width of each.
MutatedFields(d) ==
    LET a == BuildArchive(d)
    IN  {[at |-> a.eocdrOff + 8, w |-> 2],      \* EOCDR disk_cd_entries
         [at |-> a.eocdrOff + 10, w |-> 2],     \* EOCDR cd_entries
         [at |-> a.eocdrOff + 16, w |-> 4],     \* EOCDR cd_offset
         [at |-> a.eocdrOff + 20, w |-> 2],     \* EOCDR comment length
         [at |-> a.cdOff + 20, w |-> 4],        \* first record: comp_size
         [at |-> a.cdOff + 28, w |-> 2],        \* first record: name length
         [at |-> a.cdOff + 30, w |-> 2],        \* first record: extra length
         [at |-> a.cdOff + 32, w |-> 2],        \* first record: comment length
         [at |-> a.cdOff + 42, w |-> 4],        \* first record: lfh_offset
         [at |-> a.cdOff + 46 + 1 + 2, w |-> 2],\* first record: ZIP64 field length
         [at |-> a.cdOff + 46 + 1 + 4 + 8, w |-> 8],  \* ZIP64 field: comp_size
         [at |-> a.cdOff + 46 + 1 + 4 + 16, w |-> 8], \* ZIP64 field: lfh_offset
         [at |-> 0, w |-> 4],                   \* first local header: signature
         [at |-> 14, w |-> 4],                  \* first local header: crc32
         [at |-> 18, w |-> 4],                  \* first local header: comp_size
         [at |-> 22, w |-> 4],                  \* first local header: uncomp_size
         [at |-> 26, w |-> 2],                  \* first local header: name length
         [at |-> 28, w |-> 2]}                  \* first local header: extra length
        \cup (IF d.zip64 = "no" THEN {}
              ELSE {[at |-> a.locOff + 8, w |-> 8],   \* locator: EOCDR64 offset
                    [at |-> a.z64Off + 4, w |-> 8],   \* EOCDR64: record size
                    [at |-> a.z64Off + 32, w |-> 8],  \* EOCDR64: cd_entries
                    [at |-> a.z64Off + 48, w |-> 8]}) \* EOCDR64: cd_offset

\* The archive followed by zero bytes: as many as put the signature of its
\* EOCDR one byte inside the window EocdRecord32::find searches, at the
\* first byte of the window, and one byte before the window.
PaddedDesc ==
    [entries |-> EntryListsOf([name |-> <<97>>, payload |-> <<97, 98>>,
                               extraKind |-> "none", sentinels |-> {}], 1),
     zip64 |-> "no", comment |-> <<>>]
PadZeros == {MAX_BACK_OFFSET - 22 + k : k \in {-1, 0, 1}}

Archives ==
    {[desc |-> d, mut |-> "none", at |-> 0, val |-> <<>>] : d \in ArchiveDescs}
    \cup {[desc |-> PaddedDesc, mut |-> "pad", at |-> z, val |-> <<>>] : z \in PadZeros}
    \cup UNION {{[desc |-> d, mut |-> "truncate", at |-> k, val |-> <<>>] :
                    k \in 0..(Len(BuildArchive(d).bytes) - 1)} :
                d \in MutatedDescs}
    \cup UNION {UNION {{[desc |-> d, mut |-> "overwrite", at |-> f.at, val |-> v] :
                           v \in FieldValues(Len(BuildArchive(d).bytes), f.w)} :
                       f \in MutatedFields(d)} :
                d \in MutatedDescs}

BufferOf(a) ==
    LET bytes == BuildArchive(a.desc).bytes
    IN  CASE a.mut = "none" -> bytes
          [] a.mut = "truncate" -> Truncate(bytes, Min(a.at, Len(bytes)))
          [] a.mut = "overwrite" -> Overwrite(bytes, a.at, a.val)
          [] a.mut = "pad" -> bytes

InitParse ==
    /\ archive \in Archives
    /\ buf = BufferOf(archive)
    /\ bufZeros = IF archive.mut = "pad" THEN archive.at ELSE 0
    /\ found = [tag |-> "none"]
    /\ usizeBytes \in {4, 8}
    /\ zip = [tag |-> "none"] /\ entries = [tag |-> "none"]
    /\ yielded = <<>> /\ lastRead = [tag |-> "none"]
    /\ PathIdle /\ PermIdle /\ CopyIdle /\ MainIdle
    /\ ExtractIdle /\ TimeIdle

\* ZipArchive::parse(&buf)
Parse ==
    /\ zip.tag = "none"
    /\ found' = EocdRecord32_find
    /\ zip' = ZipArchive_parse_found(found')
    /\ UNCHANGED <<archive, buf, bufZeros, usizeBytes, entries, yielded, lastRead>>
    /\ UNCHANGED <<pathVars, permVars, copyVars, mainVars, extractVars, timeVars>>

\* zip.entries()
Entries ==
    /\ zip.tag = "Ok" /\ entries.tag = "none"
    /\ entries' = ZipArchive_entries(zip)
    /\ UNCHANGED <<archive, buf, bufZeros, usizeBytes, found, zip, yielded, lastRead>>
    /\ UNCHANGED <<pathVars, permVars, copyVars, mainVars, extractVars, timeVars>>

\* One call of ZipEntries::next.  (A call that never returns is recorded as
\* the item Diverge, and nothing is called after it.)
EntriesNext ==
    /\ entries.tag = "Ok"
    /\ Len(yielded) < MaxNextCalls
    /\ IF yielded = <<>> THEN TRUE
       ELSE yielded[Len(yielded)].tag \notin {"Diverge", "Panic"}
    /\ LET r == ZipEntries_next(entries)
       IN  /\ yielded' = Append(yielded, r.item)
           /\ entries' = r.it
    /\ UNCHANGED <<archive, buf, bufZeros, usizeBytes, found, zip, lastRead>>
    /\ UNCHANGED <<pathVars, permVars, copyVars, mainVars, extractVars, timeVars>>

\* zip.read(cfh) on a record that next returned.
Read ==
    /\ zip.tag = "Ok"
    /\ \E i \in 1..Len(yielded) :
          /\ yielded[i].tag = "Ok"
          /\ lastRead' = [tag |-> "read", item |-> i,
                          res |-> ZipArchive_read(yielded[i].cfh)]
    /\ UNCHANGED <<archive, buf, bufZeros, usizeBytes, found, zip, entries, yielded>>
    /\ UNCHANGED <<pathVars, permVars, copyVars, mainVars, extractVars, timeVars>>

NextParse == Parse \/ Entries \/ EntriesNext \/ Read

SpecParse == InitParse /\ [][NextParse]_vars

(***************************************************************************)
(* Part 6.  The extraction of the materialized records of one archive:     *)
(*     entries.par_iter().try_for_each(|cfh| do_entry(..))                 *)
(* Every record is a task of the pool.  A task's do_entry is a sequence of *)
(* steps, one per system call on the tree under target_dir (open with      *)
(* create_new, mkdir), which the tasks in flight interleave freely.  A     *)
(* path is the sequence of its normal components below target_dir, which   *)
(* exists and is a directory.                                              *)
(***************************************************************************)
\* Bounds: the records of an archive, and the extractions into one root.
MaxTasks == 3
MaxRuns == 2

\* zip_parser::compress
STORE == 0
DEFLATE == 8

Dir == [kind |-> "dir"]
File(data) == [kind |-> "file", data |-> data]

Exists(tree, p) == p \in DOMAIN tree
IsDir(tree, p) == Exists(tree, p) /\ tree[p].kind = "dir"
Prefix(p, l) == SubSeq(p, 1, l)

\* The tree with node n at path p.
WithNode(tree, p, n) ==
    [q \in DOMAIN tree \cup {p} |-> IF q = p THEN n ELSE tree[q]]

\* What the walk to the parent of p meets: a missing component (NotFound),
\* a component that is a file (NotADirectory), or directories only (Ok).
WalkParent(tree, p) ==
    IF \E l \in 0..(Len(p) - 1) : ~Exists(tree, Prefix(p, l)) THEN "NotFound"
    ELSE IF \E l \in 0..(Len(p) - 1) : ~IsDir(tree, Prefix(p, l)) THEN "NotADirectory"
    ELSE "Ok"

\* mkdir(p): the error kind, or Ok with the directory created.
Mkdir(tree, p) ==
    IF WalkParent(tree, p) # "Ok" THEN [res |-> WalkParent(tree, p), tree |-> tree]
    ELSE IF Exists(tree, p) THEN [res |-> "AlreadyExists", tree |-> tree]
    ELSE [res |-> "Ok", tree |-> WithNode(tree, p, Dir)]

\* An open with write and append only, which takes a file that exists.
OpenAppend(tree, p, sep) ==
    IF WalkParent(tree, p) # "Ok" THEN [res |-> WalkParent(tree, p), tree |-> tree]
    ELSE IF sep THEN [res |-> "IsADirectory", tree |-> tree]
    ELSE IF Exists(tree, p) THEN [res |-> "Ok", tree |-> tree]
    ELSE [res |-> "Ok", tree |-> WithNode(tree, p, File(<<>>))]

\* File::options().write(true).append(true).create_new(true).open(p); sep
\* tells that the name ends with a separator, which open refuses.
OpenCreateNew(tree, p, sep) ==
    IF WalkParent(tree, p) # "Ok" THEN [res |-> WalkParent(tree, p), tree |-> tree]
    ELSE IF sep THEN [res |-> "IsADirectory", tree |-> tree]
    ELSE IF Exists(tree, p) THEN [res |-> "AlreadyExists", tree |-> tree]
    ELSE [res |-> "Ok", tree |-> WithNode(tree, p, File(<<>>))]

\* A classification that leaves the payload out.
IsDirectoryEntryAnyPayload(e) == e.sep /\ e.method = STORE

\* do_entry: the entry is a directory.
\*   (name.ends_with_str("/") || name.ends_with_str("\\"))
\*       && cfh.method == compress::STORE && buf.is_empty()
IsDirectoryEntry(e) == e.sep /\ e.method = STORE /\ e.payload = <<>>

\* The path create_dir_all is called on: the target of a directory entry,
\* the parent of the target of a file entry.
CdaTarget(e) ==
    IF IsDirectoryEntry(e) THEN e.path ELSE Prefix(e.path, Len(e.path) - 1)

\* The records explored: directories D/ and D/E/, files under them and at
\* the top, two files with one destination, names that end with a separator
\* without being directories, an encrypted record, a record whose payload
\* does not match its crc32.
Entry(path, sep, method, payload, encrypted, crcOk) ==
    [path |-> path, sep |-> sep, method |-> method, payload |-> payload,
     encrypted |-> encrypted, crcOk |-> crcOk]

EntryChoices ==
    << Entry(<<"D">>, TRUE, STORE, <<>>, FALSE, TRUE),
       Entry(<<"D", "E">>, TRUE, STORE, <<>>, FALSE, TRUE),
       Entry(<<"D", "f">>, FALSE, STORE, <<1>>, FALSE, TRUE),
       Entry(<<"D", "E", "g">>, FALSE, DEFLATE, <<2>>, FALSE, TRUE),
       Entry(<<"f">>, FALSE, STORE, <<1>>, FALSE, TRUE),
       Entry(<<"f">>, FALSE, STORE, <<3>>, FALSE, TRUE),
       Entry(<<"e">>, FALSE, STORE, <<>>, FALSE, TRUE),
       Entry(<<"D", "h">>, TRUE, STORE, <<4>>, FALSE, TRUE),
       Entry(<<"D", "h">>, TRUE, DEFLATE, <<>>, FALSE, TRUE),
       Entry(<<"x">>, FALSE, STORE, <<5>>, TRUE, TRUE),
       Entry(<<"D", "c">>, FALSE, STORE, <<6>>, FALSE, FALSE) >>

\* The Vecs explored: records of EntryChoices in increasing position.
TaskLists ==
    {[i \in 1..Len(ids) |-> EntryChoices[ids[i]]] :
        ids \in {q \in SeqsUpTo(1..Len(EntryChoices), MaxTasks) :
                    /\ q # <<>>
                    /\ \A i \in 1..(Len(q) - 1) : q[i] < q[i + 1]}}

\* The trees explored at the start: the empty root, a root that holds the
\* file f, a root that holds a file named D.
RootOnly == [q \in {<<>>} |-> Dir]
InitialTrees ==
    {RootOnly, WithNode(RootOnly, <<"f">>, File(<<9>>)),
     WithNode(RootOnly, <<"D">>, File(<<9>>))}

\* The state of a task: where it stands (pc; inside create_dir_all, the
\* phase and the level of the path it is at), which of do_dir and do_file
\* do_entry called (fn), and its result.
Todo == [pc |-> "todo", fn |-> "", phase |-> "", lvl |-> 0, res |-> ""]
Finished(t, res) == [pc |-> "done", fn |-> t.fn, phase |-> "", lvl |-> 0, res |-> res]
At(t, pc) == [pc |-> pc, fn |-> t.fn, phase |-> "", lvl |-> 0, res |-> ""]
InMkdir(t, phase, lvl) ==
    [pc |-> "mkdir", fn |-> t.fn, phase |-> phase, lvl |-> lvl, res |-> ""]
Called(fn) == [Todo EXCEPT !.fn = fn]

\* path_open(&target, options.overwrite) as util.rs defines path_open: the
\* options of the open are write, append and create_new, whatever the
\* caller's overwrite is.
path_open_first(tree, e, ow) == OpenCreateNew(tree, e.path, e.sep)

InitExtract ==
    /\ overwrite \in BOOLEAN
    /\ fsTree \in InitialTrees
    /\ tasks \in TaskLists
    /\ task = [i \in 1..Len(tasks) |-> Todo]
    /\ full = FALSE /\ extractResult = "running" /\ runs = 1
    /\ PathIdle /\ PermIdle /\ CopyIdle /\ MainIdle /\ ParseIdle /\ TimeIdle

\* Task i ends: with Ok, or with an error, which raises the flag of
\* try_for_each.
TaskEnds(i, res) ==
    /\ task' = [task EXCEPT ![i] = Finished(@, res)]
    /\ full' = (full \/ res # "ok")

\* A pool that hands out records whatever the flag is.
MayBeginAlways == extractResult = "running"

\* try_for_each hands out a record while no failure has raised the flag.
MayBegin == extractResult = "running" /\ ~full

\* A worker takes a record that no worker has taken, unless the flag is
\* raised, and runs do_entry up to its first system call:
\*   if cfh.gp_flag & 1 != 0 { bail!("encrypt is not supported") }
\*   if <directory> { do_dir(..) } else { do_file(..) }
Begin ==
    /\ MayBegin
    /\ \E i \in 1..Len(tasks) :
          /\ task[i].pc = "todo"
          /\ IF tasks[i].encrypted THEN TaskEnds(i, "encrypt is not supported")
             ELSE /\ task' = [task EXCEPT ![i] =
                                IF IsDirectoryEntry(tasks[i])
                                THEN InMkdir(Called("do_dir"), "down",
                                             Len(CdaTarget(tasks[i])))
                                ELSE At(Called("do_file"), "open")]
                  /\ full' = full
    /\ UNCHANGED <<overwrite, fsTree, tasks, extractResult, runs>>
    /\ UNCHANGED <<pathVars, permVars, copyVars, mainVars, parseVars, timeVars>>

\* path_open: open_options.open(path).  NotFound sends it to
\* create_dir_all(path.parent()); any other error is returned.
Open ==
    /\ \E i \in 1..Len(tasks) :
          /\ task[i].pc = "open"
          /\ LET r == path_open_first(fsTree, tasks[i], overwrite)
             IN  /\ fsTree' = r.tree
                 /\ CASE r.res = "Ok" ->
                            task' = [task EXCEPT ![i] = At(@, "copy")] /\ full' = full
                      [] r.res = "NotFound" ->
                            /\ task' = [task EXCEPT ![i] =
                                          InMkdir(@, "down", Len(CdaTarget(tasks[i])))]
                            /\ full' = full
                      [] OTHER -> TaskEnds(i, r.res)
    /\ UNCHANGED <<overwrite, tasks, extractResult, runs>>
    /\ UNCHANGED <<pathVars, permVars, copyVars, mainVars, parseVars, timeVars>>

\* What follows create_dir_all returning res, in do_dir and in path_open:
\*   .or_else(|err| if err.kind() == AlreadyExists { Ok(()) } else { Err(err) })?
\* do_dir is then over; path_open opens the path again.
AfterCreateDirAll(i, res) ==
    IF res \in {"Ok", "AlreadyExists"}
    THEN IF IsDirectoryEntry(tasks[i]) THEN TaskEnds(i, "ok")
         ELSE task' = [task EXCEPT ![i] = At(@, "reopen")] /\ full' = full
    ELSE TaskEnds(i, res)

\* The directory at level lvl is there: create_dir_all returns Ok when it
\* is the path it was called on, and goes on to the level below otherwise.
MkdirAdvance(i, lvl) ==
    IF lvl = Len(CdaTarget(tasks[i])) THEN AfterCreateDirAll(i, "Ok")
    ELSE task' = [task EXCEPT ![i] = InMkdir(@, "up", lvl + 1)] /\ full' = full

\* fs::create_dir_all after a mkdir that failed: had it not looked whether
\* the path is a directory.
path_is_dir_unasked(tree, p) == FALSE

\* fs::create_dir_all after a mkdir that failed: path.is_dir().
path_is_dir(tree, p) == IsDir(tree, p)

\* One mkdir of fs::create_dir_all.  The first mkdir of a call (phase down)
\* sends it to the parent on NotFound; any other error, and any error of
\* the mkdir that follows the parent's creation (phase up), counts as
\* success when the path is a directory and is returned otherwise.  (The
\* path.is_dir() that follows a failed mkdir is taken with it: no step
\* removes or replaces a node.)
MkdirStep ==
    /\ \E i \in 1..Len(tasks) :
          /\ task[i].pc = "mkdir"
          /\ LET lvl == task[i].lvl
                 p == Prefix(CdaTarget(tasks[i]), lvl)
                 r == Mkdir(fsTree, p)
             IN  /\ fsTree' = r.tree
                 /\ CASE r.res = "Ok" -> MkdirAdvance(i, lvl)
                      [] r.res = "NotFound" /\ task[i].phase = "down" ->
                            /\ task' = [task EXCEPT ![i] = InMkdir(@, "down", lvl - 1)]
                            /\ full' = full
                      [] OTHER ->
                            IF path_is_dir(fsTree, p) THEN MkdirAdvance(i, lvl)
                            ELSE AfterCreateDirAll(i, r.res)
    /\ UNCHANGED <<overwrite, tasks, extractResult, runs>>
    /\ UNCHANGED <<pathVars, permVars, copyVars, mainVars, parseVars, timeVars>>

\* path_open: return open_options.open(path), after create_dir_all.
Reopen ==
    /\ \E i \in 1..Len(tasks) :
          /\ task[i].pc = "reopen"
          /\ LET r == OpenCreateNew(fsTree, tasks[i].path, tasks[i].sep)
             IN  /\ fsTree' = r.tree
                 /\ IF r.res = "Ok"
                    THEN task' = [task EXCEPT ![i] = At(@, "copy")] /\ full' = full
                    ELSE TaskEnds(i, r.res)
    /\ UNCHANGED <<overwrite, tasks, extractResult, runs>>
    /\ UNCHANGED <<pathVars, permVars, copyVars, mainVars, parseVars, timeVars>>

\* io::copy(&mut reader, &mut fd)?: the payload is appended to the file,
\* and the copy fails at its end when the crc32 does not match.
Copy ==
    /\ \E i \in 1..Len(tasks) :
          /\ task[i].pc = "copy"
          /\ fsTree' = [fsTree EXCEPT ![tasks[i].path] =
                           File(@.data \o tasks[i].payload)]
          /\ TaskEnds(i, IF tasks[i].crcOk THEN "ok" ELSE "crc32 check failed")
    /\ UNCHANGED <<overwrite, tasks, extractResult, runs>>
    /\ UNCHANGED <<pathVars, permVars, copyVars, mainVars, parseVars, timeVars>>

\* try_for_each returns: no task is in flight, and every record was taken
\* or the flag is raised.  It returns one of the errors of the tasks.
Finish ==
    /\ extractResult = "running"
    /\ \A i \in 1..Len(tasks) : task[i].pc \in {"todo", "done"}
    /\ full \/ \A i \in 1..Len(tasks) : task[i].pc = "done"
    /\ IF \E i \in 1..Len(tasks) : task[i].res \notin {"", "ok"}
       THEN \E i \in 1..Len(tasks) :
               /\ task[i].res \notin {"", "ok"}
               /\ extractResult' = task[i].res
       ELSE extractResult' = "ok"
    /\ UNCHANGED <<overwrite, fsTree, tasks, task, full, runs>>
    /\ UNCHANGED <<pathVars, permVars, copyVars, mainVars, parseVars, timeVars>>

\* The archive is extracted again into the same root (the next archive
\* argument of main names the same file).
Rerun ==
    /\ extractResult = "ok" /\ runs < MaxRuns
    /\ runs' = runs + 1
    /\ task' = [i \in 1..Len(tasks) |-> Todo]
    /\ extractResult' = "running"
    /\ UNCHANGED <<overwrite, fsTree, tasks, full>>
    /\ UNCHANGED <<pathVars, permVars, copyVars, mainVars, parseVars, timeVars>>

NextExtract == Begin \/ Open \/ MkdirStep \/ Reopen \/ Copy \/ Finish \/ Rerun

SpecExtract == InitExtract /\ [][NextExtract]_vars

\* The workers of the pool run the tasks they took to their end, and
\* try_for_each returns when they have.
SpecExtractFair ==
    SpecExtract /\ WF_vars(Begin \/ Open \/ MkdirStep \/ Reopen \/ Copy \/ Finish)

(***************************************************************************)
(* Part 7.  dos2time, and the entry whose modification time it decodes.    *)
(***************************************************************************)
\* a & m and a >> n on u16 values.
BitAnd(a, m) == FromBits(BitsOf(a) \cap BitsOf(m))
ShiftRight(a, n) == FromBits({i - n : i \in {j \in BitsOf(a) : j >= n}})

\* time::util::is_leap_year, had it known the rule of four only.
is_leap_year_every_fourth(year) == year % 4 = 0

\* time::util::is_leap_year
is_leap_year(year) == year % 4 = 0 /\ (year % 25 # 0 \/ year % 16 = 0)

\* time::util::days_in_year_month
days_in_year_month(year, month) ==
    IF month \in {1, 3, 5, 7, 8, 10, 12} THEN 31
    ELSE IF month \in {4, 6, 9, 11} THEN 30
    ELSE IF is_leap_year(year) THEN 29
    ELSE 28

\* dos2time: the fields are cut out of the two words, then converted in
\* the order of the code: the month (Month::try_from), the time
\* (Time::from_hms: hour, minute, second), the date
\* (Date::from_calendar_date: the day within the month of the year).
dos2time(dos_date, dos_time) ==
    LET sec == BitAnd(dos_time, 31) * 2
        min == BitAnd(ShiftRight(dos_time, 5), 63)
        hour == ShiftRight(dos_time, 11)
        day == BitAnd(dos_date, 31)
        mon == BitAnd(ShiftRight(dos_date, 5), 15)
        year == ShiftRight(dos_date, 9) + 1980
    IN  IF mon \notin 1..12 THEN Err("month")
        ELSE IF hour > 23 THEN Err("hour")
        ELSE IF min > 59 THEN Err("minute")
        ELSE IF sec > 59 THEN Err("second")
        ELSE IF day < 1 \/ day > days_in_year_month(year, mon) THEN Err("day")
        ELSE [tag |-> "Ok", year |-> year, month |-> mon, day |-> day,
              hour |-> hour, minute |-> min, second |-> sec]

\* The dates and times explored, field by field: the ends of every range,
\* the first value beyond it, the lengths of the months, leap years and
\* the years 2000 and 2100.
DosDays == {0, 1, 28, 29, 30, 31}
DosMonths == {0, 1, 2, 4, 12, 13, 15}
DosYears == {0, 20, 120, 124, 127}
DosSeconds == {0, 29, 30, 31}
DosMinutes == {0, 59, 60, 63}
DosHours == {0, 23, 24, 31}
DosDates == {y * 512 + m * 32 + d : y \in DosYears, m \in DosMonths, d \in DosDays}
DosTimes == {h * 2048 + m * 32 + s : h \in DosHours, m \in DosMinutes, s \in DosSeconds}

InitTime ==
    /\ dosDate \in DosDates /\ dosTime \in DosTimes
    /\ timeResult = [tag |-> "none"]
    /\ stampEntry \in {[pc |-> "entry", dir |-> b, created |-> FALSE,
                         mtime |-> [tag |-> "none"], res |-> ""] : b \in BOOLEAN}
    /\ PathIdle /\ PermIdle /\ CopyIdle /\ MainIdle /\ ParseIdle /\ ExtractIdle

\* do_entry on a directory entry: do_dir creates the directory.
StampDir ==
    /\ stampEntry.pc = "entry" /\ stampEntry.dir
    /\ stampEntry' = [stampEntry EXCEPT !.pc = "done", !.created = TRUE, !.res = "ok"]
    /\ UNCHANGED <<dosDate, dosTime, timeResult>>
    /\ UNCHANGED <<pathVars, permVars, copyVars, mainVars, parseVars, extractVars>>

\* do_file up to path_open: dos2time(cfh.mod_date, cfh.mod_time)?
StampDecode ==
    /\ stampEntry.pc = "entry" /\ ~stampEntry.dir
    /\ timeResult' = dos2time(dosDate, dosTime)
    /\ stampEntry' = IF timeResult'.tag = "Ok"
                     THEN [stampEntry EXCEPT !.pc = "open"]
                     ELSE [stampEntry EXCEPT !.pc = "done", !.res = timeResult'.err]
    /\ UNCHANGED <<dosDate, dosTime>>
    /\ UNCHANGED <<pathVars, permVars, copyVars, mainVars, parseVars, extractVars>>

\* do_file from path_open on: the file is created and written, and
\* set_file_handle_times gives it the decoded time.
StampFile ==
    /\ stampEntry.pc = "open"
    /\ stampEntry' = [stampEntry EXCEPT !.pc = "done", !.created = TRUE,
                                        !.mtime = timeResult, !.res = "ok"]
    /\ UNCHANGED <<dosDate, dosTime, timeResult>>
    /\ UNCHANGED <<pathVars, permVars, copyVars, mainVars, parseVars, extractVars>>

NextTime == StampDir \/ StampDecode \/ StampFile

SpecTime == InitTime /\ [][NextTime]_vars

(***************************************************************************)
(* Part 8.  do_entry on one record, check by check, up to the creation of  *)
(* its destination.                                                        *)
(***************************************************************************)
\* zip_parser::compress::ZSTD
ZSTD == 93

\* path_join: the try_fold over the components of the name, from
\* component k on at depth d; the error of the fold, or "ok".
RECURSIVE path_join_from(_, _, _)
path_join_from(cs, k, d) ==
    IF k > Len(cs) THEN "ok"
    ELSE IF FoldStep(d, cs[k]).err # "" THEN FoldStep(d, cs[k]).err
    ELSE path_join_from(cs, k + 1, FoldStep(d, cs[k]).depth)
path_join(s) == path_join_from(Components(s), 1, 0)

\* A do_file whose match on cfh.method has an arm for every method.
method_supported_always(method, zstd) == TRUE

\* do_file: the match on cfh.method builds a reader for STORE, DEFLATE
\* and, when the build has the feature zstd-sys, ZSTD; any other method
\* bails.
method_supported(method, zstd) ==
    method \in {STORE, DEFLATE} \/ (method = ZSTD /\ zstd)

\* The records explored: names that are fine, absolute, climbing above the
\* root at their start or after a descent, and directory names; every
\* method handled and one that is not; timestamps that are valid and that
\* are invalid in their date or in their time.
EntryNames ==
    {<<"a">>, <<"a", "/">>, <<"a", "/", "a">>, <<"/", "a">>, <<"/", "a", "/">>,
     <<".", ".", "/", "a">>, <<"a", "/", ".", ".", "/", ".", ".", "/", "a">>,
     <<".", ".", "/">>, <<"a", "/", ".", ".", "/", "a">>}
EntryMethods == {STORE, DEFLATE, ZSTD, 12}
EntryDates == {33, 0, 2 * 32 + 30, 120 * 512 + 2 * 32 + 29, 20 * 512 + 2 * 32 + 29}
EntryTimes == {0, 23 * 2048 + 59 * 32 + 29, 24 * 2048, 60 * 32, 30}

InitEntry ==
    /\ name \in EntryNames
    /\ stampEntry \in {[pc |-> "entry", encrypted |-> e, method |-> m,
                         empty |-> b, zstd |-> z, res |-> ""] :
                           e \in BOOLEAN, m \in EntryMethods,
                           b \in BOOLEAN, z \in BOOLEAN}
    /\ storeEmpty = (stampEntry.method = STORE /\ stampEntry.empty)
    /\ dosDate \in EntryDates /\ dosTime \in EntryTimes
    /\ timeResult = [tag |-> "none"]
    /\ pjPos = 0 /\ depth = 0 /\ pjResult = "running" /\ created = {}
    /\ PermIdle /\ CopyIdle /\ MainIdle /\ ParseIdle /\ ExtractIdle

EntryEnds(res) == stampEntry' = [stampEntry EXCEPT !.pc = "done", !.res = res]
EntryGoes(pc) == stampEntry' = [stampEntry EXCEPT !.pc = pc]

\* do_entry: if cfh.gp_flag & 1 != 0 { bail!(..) }, then the choice of
\* do_dir or do_file.
EntryEncrypt ==
    /\ stampEntry.pc = "entry"
    /\ IF stampEntry.encrypted THEN EntryEnds("encrypt is not supported")
       ELSE EntryGoes("join")
    /\ UNCHANGED <<name, storeEmpty, pjPos, depth, pjResult, created>>
    /\ UNCHANGED <<dosDate, dosTime, timeResult>>
    /\ UNCHANGED <<permVars, copyVars, mainVars, parseVars, extractVars>>

\* do_dir, do_file: let target = path_join(target_dir, path)?
EntryJoin ==
    /\ stampEntry.pc = "join"
    /\ pjResult' = path_join(name)
    /\ IF pjResult' # "ok" THEN EntryEnds(pjResult')
       ELSE IF IsDirEntry THEN EntryGoes("mkdir")
       ELSE EntryGoes("reader")
    /\ UNCHANGED <<name, storeEmpty, pjPos, depth, created>>
    /\ UNCHANGED <<dosDate, dosTime, timeResult>>
    /\ UNCHANGED <<permVars, copyVars, mainVars, parseVars, extractVars>>

\* do_dir: fs::create_dir_all(target)
EntryMkdir ==
    /\ stampEntry.pc = "mkdir"
    /\ created' = {[path |-> PathBufJoin(TargetDir, Components(name)), dir |-> TRUE]}
    /\ EntryEnds("ok")
    /\ UNCHANGED <<name, storeEmpty, pjPos, depth, pjResult>>
    /\ UNCHANGED <<dosDate, dosTime, timeResult>>
    /\ UNCHANGED <<permVars, copyVars, mainVars, parseVars, extractVars>>

\* do_file: the reader for cfh.method.
EntryReader ==
    /\ stampEntry.pc = "reader"
    /\ IF method_supported(stampEntry.method, stampEntry.zstd) THEN EntryGoes("time")
       ELSE EntryEnds("compress method is not supported")
    /\ UNCHANGED <<name, storeEmpty, pjPos, depth, pjResult, created>>
    /\ UNCHANGED <<dosDate, dosTime, timeResult>>
    /\ UNCHANGED <<permVars, copyVars, mainVars, parseVars, extractVars>>

\* do_file: dos2time(cfh.mod_date, cfh.mod_time)?
EntryTime ==
    /\ stampEntry.pc = "time"
    /\ timeResult' = dos2time(dosDate, dosTime)
    /\ IF timeResult'.tag = "Ok" THEN EntryGoes("open")
       ELSE EntryEnds(timeResult'.err)
    /\ UNCHANGED <<name, storeEmpty, pjPos, depth, pjResult, created>>
    /\ UNCHANGED <<dosDate, dosTime>>
    /\ UNCHANGED <<permVars, copyVars, mainVars, parseVars, extractVars>>

\* do_file: path_open(&target, ..), and what follows it.
EntryOpen ==
    /\ stampEntry.pc = "open"
    /\ created' = {[path |-> PathBufJoin(TargetDir, Components(name)), dir |-> FALSE]}
    /\ EntryEnds("ok")
    /\ UNCHANGED <<name, storeEmpty, pjPos, depth, pjResult>>
    /\ UNCHANGED <<dosDate, dosTime, timeResult>>
    /\ UNCHANGED <<permVars, copyVars, mainVars, parseVars, extractVars>>

NextEntry ==
    EntryEncrypt \/ EntryJoin \/ EntryMkdir \/ EntryReader \/ EntryTime \/ EntryOpen

SpecEntry == InitEntry /\ [][NextEntry]_vars

(***************************************************************************)
(* Claims about path_join.                                                 *)
(***************************************************************************)
NormalsIn(cs, k) == Cardinality({i \in 1..k : cs[i].kind = "Normal"})
ParentsIn(cs, k) == Cardinality({i \in 1..k : cs[i].kind = "ParentDir"})
IsRelative(cs) == \A i \in 1..Len(cs) : cs[i].kind \notin {"RootDir", "Prefix"}
\* Some prefix of the components holds more '..' than normal components.
Climbs(cs) == \E k \in 1..Len(cs) : ParentsIn(cs, k) > NormalsIn(cs, k)

\* Lexical resolution: the stack of normal segments left after applying
\* every component in order ('..' at the top of the tree stays at the top).
RECURSIVE LexResolve(_, _)
LexResolve(cs, stack) ==
    IF cs = <<>> THEN stack
    ELSE LET c == Head(cs)
         IN  CASE c.kind \in {"RootDir", "Prefix"} -> LexResolve(Tail(cs), <<>>)
               [] c.kind = "Normal" -> LexResolve(Tail(cs), Append(stack, c.seg))
               [] c.kind = "ParentDir" ->
                    LexResolve(Tail(cs),
                               IF stack = <<>> THEN <<>>
                               ELSE SubSeq(stack, 1, Len(stack) - 1))
               [] OTHER -> LexResolve(Tail(cs), stack)

\* C1: path_join rejects, with "filename over the path limit", every
\* relative path one of whose component prefixes holds more '..' than normal
\* components; while it folds, the depth counter is the non-negative balance
\* of the components consumed; and the join it returns resolves lexically to
\* a path at or below the base.
C1_PathLimit ==
    LET cs == Components(name)
    IN  pjResult # "idle" =>
        /\ depth >= 0
        /\ (pjResult # "running" /\ IsRelative(cs) /\ Climbs(cs))
              => pjResult = "filename over the path limit"
        /\ (pjResult \in {"running", "ok"} /\ IsRelative(cs))
              => /\ depth = NormalsIn(cs, pjPos) - ParentsIn(cs, pjPos)
                 /\ \A k \in 0..pjPos : NormalsIn(cs, k) >= ParentsIn(cs, k)
        /\ pjResult = "ok"
              => /\ pjPos = Len(cs)
                 /\ IsPrefixOf(LexResolve(TargetDir, <<>>),
                               LexResolve(PathBufJoin(TargetDir, cs), <<>>))

\* A path that first descends and then climbs above the root was rejected.
C1_Witness ==
    /\ pjResult = "filename over the path limit"
    /\ pjPos >= 3
    /\ NormalsIn(Components(name), pjPos) >= 1

\* C2: a name with a root (or prefix) component is rejected by path_join with
\* "must relative path" as soon as the fold starts, whatever follows, and
\* nothing is created for it.
C2_AbsoluteRejected ==
    LET cs == Components(name)
    IN  (pjResult # "idle" /\ ~IsRelative(cs)) =>
        /\ created = {}
        /\ pjResult \in {"running", "must relative path"}
        /\ pjPos >= 1 => pjResult = "must relative path"
        /\ pjResult = "running" => ENABLED PathJoinStep

\* An absolute name with '..' and normal components after the root was
\* rejected.
C2_Witness ==
    LET cs == Components(name)
    IN  /\ pjResult = "must relative path"
        /\ Len(cs) >= 3
        /\ \E i \in 1..Len(cs) : cs[i].kind = "ParentDir"

(***************************************************************************)
(* Claims about the permission bits.                                       *)
(***************************************************************************)
\* C3: the mode applied to the extracted file has the set-uid bit (octal
\* 4000, bit 11) and the set-gid bit (octal 2000, bit 10) cleared and every
\* other bit equal to the bit stored in ext_attrs >> 16.
C3_SetuidSetgidCleared ==
    (permPc = "done" /\ appliedMode # -1) =>
        BitsOf(appliedMode) = BitsOf(extAttrsHi) \ {11, 10}

(***************************************************************************)
(* Claims about the copy.                                                  *)
(***************************************************************************)
\* The CRC-32 of a whole byte sequence.
Crc32(bytes) == HasherFinalize(HasherUpdate(HasherNew, bytes))

\* C4: of a decoder output of length L and an entry of uncomp_size N, exactly
\* the first min(L, N) bytes are written to the destination, and the hash
\* the CRC comparison uses is the hash of exactly the bytes written.
C4_TruncatedToUncompSize ==
    copyResult # "idle" =>
        /\ IsPrefixOf(written, decOut)
        /\ Len(written) <= Min(Len(decOut), uncompSize)
        /\ copyResult # "running" =>
              /\ Len(written) = Min(Len(decOut), uncompSize)
              /\ hasher = HasherUpdate(HasherNew, written)

\* A decoder that would emit more than N > 0 bytes was cut at N.
C4_Witness ==
    /\ copyResult = "ok"
    /\ Len(decOut) > Len(written)
    /\ Len(written) = uncompSize
    /\ Len(written) >= 2

\* C5: the CRC comparison is made exactly once, when the reader has nothing
\* more to deliver and everything delivered has been written; the copy
\* succeeds iff the CRC-32 of the bytes delivered equals the record's crc32
\* and fails with "crc32 check failed" otherwise.
C5_CrcOnceAtEnd ==
    /\ copyResult = "running" => crcChecks = 0
    /\ copyResult \notin {"idle", "running"} =>
          /\ crcChecks = 1
          /\ ~pendingAtCheck
          /\ copyResult \in {"ok", "crc32 check failed"}
          /\ copyResult = "ok" <=> Crc32(written) = expect

\* A copy of several bytes, read in more than one piece, failed the check.
C5_Witness ==
    /\ copyResult = "crc32 check failed"
    /\ Len(written) = 3
    /\ crcChecks = 1

(***************************************************************************)
(* Claims about main and unzip.                                            *)
(***************************************************************************)
\* An archive that unzip handles without error.
ArchiveSucceeds(f) ==
    /\ f.parse = "ok"
    /\ f.badAt = 0
    /\ f.entryFails \cap (1..f.count) = {}

\* C6 as stated: every archive argument is processed whatever happened to
\* the earlier ones, so when main has returned, unzip has been called on
\* every file.
C6_EveryArchiveProcessed ==
    mainResult \in {"ok", "err"} => processed = 1..Len(files)

\* C6 as amended: the archives are processed in argument order and the
\* first failure ends the run; unzip is called on a file only if every
\* earlier file succeeded, a failure is main's result at once, and no later
\* file is touched after it.
C6_FirstFailureEndsRun ==
    mainResult # "idle" =>
        /\ processed = 1..fileIdx
        /\ \A i \in processed : \A j \in 1..(i - 1) : ArchiveSucceeds(files[j])
        /\ mainResult = "err" =>
              /\ ~ArchiveSucceeds(files[fileIdx])
              /\ ~ENABLED NextMain
        /\ mainResult = "ok" =>
              /\ fileIdx = Len(files)
              /\ \A i \in 1..Len(files) : ArchiveSucceeds(files[i])
        /\ (mainResult = "running" /\ unzipPc = "idle" /\ fileIdx >= 1)
              => ArchiveSucceeds(files[fileIdx])

\* main returned the failure of the first archive's extraction and the
\* second archive, which would have succeeded, was never opened.
C6_Witness ==
    /\ mainResult = "err"
    /\ Len(files) = 2 /\ fileIdx = 1
    /\ files[1].parse = "ok" /\ files[1].badAt = 0
    /\ ArchiveSucceeds(files[2])

\* C7 as stated: the records materialized before the parallel dispatch
\* number at most min(cd_entries, 128).
C7_AtMostCapMaterialized ==
    (mainResult = "running" /\ unzipPc = "dispatch")
        => acc <= Min(files[fileIdx].count, MaterializeCap)

\* C7 as amended: every record of the central directory is materialized
\* before the dispatch (cd_entries of them, also above 128), the fold having
\* pushed one record per record parsed; min(cd_entries, 128) is the capacity
\* the vector starts with, which grows as needed.
C7_AllMaterialized ==
    (mainResult = "running" /\ unzipPc \in {"fold", "dispatch"}) =>
        /\ acc = entPos
        /\ acc + entCount = files[fileIdx].count
        /\ acc <= accCap
        /\ acc = 0 => accCap = Min(files[fileIdx].count, MaterializeCap)
        /\ unzipPc = "dispatch" => acc = files[fileIdx].count

\* More than 128 records are materialized at the dispatch.
C7_Witness ==
    /\ mainResult = "running" /\ unzipPc = "dispatch"
    /\ acc > MaterializeCap

(***************************************************************************)
(* Claims about the archive parser.                                        *)
(***************************************************************************)
\* The offsets at which the central-directory records of description d
\* start, and the offset at which the last one ends (index n + 1).
RECURSIVE RecordStart(_, _)
RecordStart(d, i) ==
    IF i = 1 THEN BuildArchive(d).cdOff
    ELSE RecordStart(d, i - 1)
            + 46 + Len(d.entries[i - 1].name)
            + Len(ExtraBytes(d.entries[i - 1], 0))

InBuffer(span) == span.off >= 0 /\ span.off + span.len <= BufLen

\* The archive is as written and not ZIP64: none of its 32-bit fields
\* holds the sentinel and no record has the ZIP64 field.
WellFormedPlain ==
    /\ archive.mut = "none" /\ archive.desc.zip64 = "no"
    /\ \A i \in 1..Len(archive.desc.entries) :
          /\ archive.desc.entries[i].sentinels = {}
          /\ archive.desc.entries[i].extraKind \in {"none", "other", "other_other"}

\* C8: on a buffer holding a well-formed non-ZIP64 EOCDR and cd_entries
\* well-formed consecutive records at cd_offset, the calls of next return
\* cd_entries Ok records and then None: call i, for i up to cd_entries,
\* returns an Ok record that starts where record i - 1 ended (the first at
\* cd_offset) and whose name, extra and comment spans lie inside the buffer,
\* and the call after the last record returns None.
C8_YieldsExactlyCdEntries ==
    WellFormedPlain =>
        /\ zip.tag \in {"none", "Ok"}
        /\ entries.tag \in {"none", "Ok"}
        /\ \A i \in 1..Len(yielded) :
              IF i <= Len(archive.desc.entries)
              THEN /\ yielded[i].tag = "Ok"
                   /\ yielded[i].at = RecordStart(archive.desc, i)
                   /\ InBuffer(yielded[i].cfh.name)
                   /\ InBuffer(yielded[i].cfh.extra)
                   /\ InBuffer(yielded[i].cfh.comment)
              ELSE yielded[i] = None

\* The 64-bit value a size or offset of the first record must come out as:
\* the value of the ZIP64 field when the 32-bit field is the sentinel, the
\* 32-bit value widened otherwise.
Expected64(e, f, v64, n32) == IF f \in e.sentinels THEN v64 ELSE Widen(Le(n32, 4))

\* The archive is as written and ZIP64 (its EOCDR holds the offset sentinel
\* or the count sentinel), and its first record has the ZIP64 field.
Zip64WithField ==
    /\ archive.mut = "none" /\ archive.desc.zip64 \in {"offset", "count"}
    /\ archive.desc.entries # <<>>
    /\ archive.desc.entries[1].extraKind \in {"z64", "other_z64", "z64_other"}

\* C9: in a ZIP64 archive, the record returned for an entry that has the
\* ZIP64 field, wherever the field sits among the extra fields, has each
\* of uncompressed size, compressed size and local-header offset equal to
\* the field's next 64-bit value when its 32-bit value is 0xFFFFFFFF (in the
\* order uncompressed size, compressed size, local-header offset), and equal
\* to its 32-bit value widened otherwise.
C9_Zip64Overrides ==
    (Zip64WithField /\ yielded # <<>>) =>
        LET e == archive.desc.entries[1]
        IN  /\ yielded[1].tag = "Ok"
            /\ yielded[1].cfh.uncomp_size
                  = Expected64(e, "uncomp", Uncomp64(e), Len(e.payload))
            /\ yielded[1].cfh.comp_size
                  = Expected64(e, "comp", Comp64(e), Len(e.payload))
            /\ yielded[1].cfh.lfh_offset = Expected64(e, "lfh", Lfh64(0), 0)

\* C10: whatever the buffer holds and whatever its offset, size and length
\* fields are, none of ZipArchive::parse, entries, ZipEntries::next and
\* ZipArchive::read aborts on an index outside the slice it indexes.
C10_NoAbort ==
    /\ zip.tag # "Panic"
    /\ entries.tag # "Panic"
    /\ \A i \in 1..Len(yielded) : yielded[i].tag # "Panic"
    /\ lastRead.tag # "none" => lastRead.res.tag # "Panic"

\* The EOCDR signature lies in the buffer at offset i.
SignatureAt(i) ==
    /\ i >= 0 /\ i + Len(EOCDR_SIGNATURE) <= BufLen
    /\ Bytes([off |-> i, len |-> Len(EOCDR_SIGNATURE)]) = EOCDR_SIGNATURE

\* The first offset of the last min(len, 128 KiB) bytes of the buffer.
WindowStart == BufLen - Min(BufLen, MAX_BACK_OFFSET)

\* The archive is as written, possibly followed by zero bytes: the
\* signature of its EOCDR is the last one in the buffer.
WrittenOrPadded == archive.mut \in {"none", "pad"}
WrittenSignature == BuildArchive(archive.desc).eocdrOff

\* C11 (as stated): an EOCDR whose signature starts at the first byte of
\* the 128 KiB window, and one whose signature starts one byte before that
\* byte, are both found, at their offset in the buffer.
C11_BoundaryAndBeyondLocated ==
    (/\ archive.mut = "pad" /\ found.tag # "none"
     /\ BufLen - WrittenSignature \in {MAX_BACK_OFFSET, MAX_BACK_OFFSET + 1})
        => (found.tag = "Ok" /\ found.offset = WrittenSignature)

\* C11 (amended): EocdRecord32::find looks for the signature in the last
\* min(len, 128 KiB) bytes only: it fails BadEocdr when no signature lies
\* there, and a record it returns starts with the signature, inside that
\* window, the offset returned being the offset in the whole buffer.  The
\* EOCDR of an archive is found at its offset when its signature starts in
\* the window, the first byte of the window included, and is not found
\* (BadEocdr) when its signature starts one byte before the window.
C11_WindowedFind ==
    found.tag # "none" =>
        /\ found.tag = "Ok"
              => SignatureAt(found.offset) /\ found.offset >= WindowStart
        /\ (~ \E i \in WindowStart..(BufLen - 1) : SignatureAt(i))
              => found = Err("BadEocdr")
        /\ WrittenOrPadded =>
              IF WrittenSignature >= WindowStart
              THEN found.tag = "Ok" /\ found.offset = WrittenSignature
              ELSE found = Err("BadEocdr")

\* An EOCDR whose signature is the first byte of the window of a buffer
\* longer than 128 KiB was found.
C11_Witness ==
    /\ archive.mut = "pad" /\ BufLen - WrittenSignature = MAX_BACK_OFFSET
    /\ BufLen > MAX_BACK_OFFSET
    /\ found.tag = "Ok" /\ found.offset = WrittenSignature

(***************************************************************************)
(* Claims about the extraction of an archive's entries.                    *)
(***************************************************************************)
\* Task i opens its destination in this step (either open of path_open).
Opens(i) == task[i].pc \in {"open", "reopen"} /\ task'[i] # task[i]

\* The destination of task i is an existing file.
DestinationIsFile(i) ==
    /\ Exists(fsTree, tasks[i].path) /\ fsTree[tasks[i].path].kind = "file"
    /\ ~tasks[i].sep

\* C12: an open of a destination that exists fails and leaves the tree, so
\* the existing file's content, as it was when the overwrite option is not
\* set, and succeeds (the entry goes on to its copy) when the option is set.
C12_ExclusiveUnlessOverwrite ==
    [][\A i \in 1..Len(tasks) :
          (Opens(i) /\ DestinationIsFile(i)) =>
              IF overwrite
              THEN task'[i].pc = "copy"
              ELSE /\ task'[i].pc = "done" /\ task'[i].res = "AlreadyExists"
                   /\ fsTree' = fsTree]_vars

\* The name of record e ends with a separator, its method is store and its
\* payload is empty.
DirectoryRecord(e) == e.sep /\ e.method = 0 /\ Len(e.payload) = 0

\* Task i was handled by do_dir / by do_file.
InDoDir(i) == task[i].fn = "do_dir"
InDoFile(i) == task[i].fn = "do_file"

\* Every record is a directory record, and every one of the directories
\* is in the tree.
OnlyDirectoriesAllThere ==
    \A i \in 1..Len(tasks) :
        DirectoryRecord(tasks[i]) /\ IsDir(fsTree, tasks[i].path)

\* C13: an entry that do_entry hands on is handled by do_dir exactly when
\* its name ends with a separator, its method is store and its payload is
\* empty, and by do_file otherwise (an entry handled with success leaves a
\* node at its path, a file when do_file handled it); and extracting an archive of directory
\* records into a root where the directories exist changes nothing in the
\* tree and fails no entry.
C13_DirectoryIffAndIdempotent ==
    /\ [](\A i \in 1..Len(tasks) :
            /\ InDoDir(i) => DirectoryRecord(tasks[i])
            /\ InDoFile(i) => ~DirectoryRecord(tasks[i])
            /\ (task[i].pc # "todo" /\ ~tasks[i].encrypted)
                  => InDoDir(i) \/ InDoFile(i)
            /\ (task[i].pc = "done" /\ task[i].res = "ok") =>
                  /\ Exists(fsTree, tasks[i].path)
                  /\ ~DirectoryRecord(tasks[i])
                        => fsTree[tasks[i].path].kind = "file")
    /\ [][OnlyDirectoriesAllThere =>
            /\ fsTree' = fsTree
            /\ \A i \in 1..Len(tasks) : task'[i].res \in {"", "ok"}
            /\ extractResult' \in {"running", "ok"}]_vars

\* An archive of two or more directory records was extracted twice into
\* one root, with success.
C13_Witness ==
    /\ runs = 2 /\ extractResult = "ok" /\ Len(tasks) >= 2
    /\ OnlyDirectoriesAllThere

Failed(i) == task[i].res \notin {"", "ok"}
SomeFailed == \E i \in 1..Len(tasks) : Failed(i)
Reported == extractResult \notin {"running", "ok"}

\* C14 (as stated): whenever an entry fails, the extraction ends with the
\* failure of that entry reported.
C14_EveryFailureReported ==
    Reported => \A i \in 1..Len(tasks) : Failed(i) => extractResult = task[i].res

\* Every node of the tree stays, a file keeping the bytes written to it.
NothingRolledBack ==
    \A p \in DOMAIN fsTree :
        /\ p \in DOMAIN fsTree'
        /\ fsTree'[p].kind = fsTree[p].kind
        /\ fsTree[p].kind = "file" => IsPrefixOf(fsTree[p].data, fsTree'[p].data)

\* C14 (amended): once an entry has failed, the extraction of the archive
\* ends, reporting the failure of an entry (that one, or another entry that
\* failed while both were in flight), and never success; once the failure
\* is recorded (the task has its result and the flag is raised), no entry
\* whose extraction had not begun is begun; and what was written stays.
C14_FailFast ==
    /\ [](Reported => \E i \in 1..Len(tasks) : Failed(i) /\ extractResult = task[i].res)
    /\ [](SomeFailed => extractResult # "ok")
    /\ [][SomeFailed => \A i \in 1..Len(tasks) :
                            task[i].pc = "todo" => task'[i].pc = "todo"]_vars
    /\ [][NothingRolledBack]_vars
    /\ (SomeFailed ~> Reported)

\* The extraction ended with a failure reported while a record was never
\* taken, and the file of an entry extracted before the failure is there.
C14_Witness ==
    /\ Reported
    /\ \E i \in 1..Len(tasks) : task[i].pc = "todo"
    /\ \E i \in 1..Len(tasks) :
          /\ task[i].res = "ok" /\ task[i].fn = "do_file"
          /\ fsTree[tasks[i].path].data = tasks[i].payload

(***************************************************************************)
(* Claims about the enumeration of records and the resolution of entries.  *)
(***************************************************************************)
\* The count ZipArchive::entries hands to the iterator.
ParsedCount == cd_entries(zip).val

\* The calls of next that produced an item (a record or an error), or that
\* never returned.
Produced == {i \in 1..Len(yielded) : yielded[i] # None}

\* C15: whatever the buffer, the calls of next produce at most cd_entries
\* items, records and errors counted together, and every call after the
\* first cd_entries calls returns None.
C15_BoundedByParsedCount ==
    entries.tag = "Ok" =>
        /\ Cardinality(Produced) <= ParsedCount
        /\ \A i \in 1..Len(yielded) : i > ParsedCount => yielded[i] = None

\* The EOCDR was found and the archive is ZIP64: the ZIP64 EOCDR that
\* EocdRecord64::find reads for it.
IsZip64Found ==
    /\ found.tag = "Ok"
    /\ found.eocdr.disk_cd_entries = found.eocdr.cd_entries
    /\ found.eocdr.cd_offset = U32MAX
Eocdr64Found == EocdRecord64_find(found.offset)

\* C16: ZipArchive::parse fails Unsupported when the this-disk and total
\* entry counts of the EOCDR differ, and, for a ZIP64 archive, when the
\* this-disk and total entry counts of the ZIP64 EOCDR differ.
C16_CountsMustAgree ==
    zip.tag # "none" =>
        /\ (found.tag = "Ok"
                /\ found.eocdr.disk_cd_entries # found.eocdr.cd_entries)
              => zip = Err("Unsupported")
        /\ (IsZip64Found /\ Eocdr64Found.tag = "Ok"
                /\ Eocdr64Found.eocdr.disk_cd_entries
                      # Eocdr64Found.eocdr.cd_entries)
              => zip = Err("Unsupported")

\* The record that the last call of read resolved, and what the buffer
\* holds at its lfh_offset: the four signature bytes, the two length fields
\* at offsets 26 and 28 of the local header, and the span of comp_size
\* bytes after the 30 fixed bytes, the name and the extra span.
ReadCfh == yielded[lastRead.item].cfh
Fits(v) == TryUsize(v).tag = "Some"
LfhAt == Sat(ReadCfh.lfh_offset)
LfhSignatureRight == Bytes([off |-> LfhAt, len |-> 4]) = LFH_SIGNATURE
LfhNameLen == ByteAt(LfhAt + 26) + 256 * ByteAt(LfhAt + 27)
LfhExtraLen == ByteAt(LfhAt + 28) + 256 * ByteAt(LfhAt + 29)
PayloadAt == LfhAt + 30 + LfhNameLen + LfhExtraLen
PayloadSpan == [off |-> PayloadAt, len |-> Sat(ReadCfh.comp_size)]

\* What read returns when it succeeds: the span of comp_size bytes right
\* after the name and extra spans of the local header, inside the buffer.
ReadOkReturnsPayloadSpan ==
    lastRead.res.tag = "Ok" =>
        /\ lastRead.res.buf = PayloadSpan
        /\ InBuffer(PayloadSpan)
        /\ lastRead.res.lfh.name = [off |-> LfhAt + 30, len |-> LfhNameLen]
        /\ lastRead.res.lfh.extra
              = [off |-> LfhAt + 30 + LfhNameLen, len |-> LfhExtraLen]
        /\ LfhSignatureRight

\* C17 (as claimed): read returns the span of exactly comp_size bytes that
\* starts right after the name and extra spans of the local header at
\* lfh_offset and lies inside the buffer; it fails Eof when lfh_offset is
\* beyond the buffer or the span runs past its end, BadLfh when the four
\* bytes at lfh_offset are not the signature; the size and crc fields of
\* the local header play no part.
C17_SpanOrEofOrBadLfh ==
    lastRead.tag = "read" =>
        /\ ReadOkReturnsPayloadSpan
        /\ LfhAt > BufLen => lastRead.res = Err("Eof")
        /\ (LfhAt + 4 <= BufLen /\ ~LfhSignatureRight)
              => lastRead.res = Err("BadLfh")
        /\ (LfhAt + 4 <= BufLen /\ LfhSignatureRight /\ ~InBuffer(PayloadSpan))
              => lastRead.res = Err("Eof")
        /\ (LfhAt + 4 <= BufLen /\ LfhSignatureRight /\ InBuffer(PayloadSpan))
              => lastRead.res.tag = "Ok"

\* C17 (amended): as claimed, except that read fails OffsetOverflow, not
\* Eof, when lfh_offset does not fit the host's usize, and when the local
\* header is in the buffer and comp_size does not fit the host's usize.
C17_SpanOrError ==
    lastRead.tag = "read" =>
        /\ ReadOkReturnsPayloadSpan
        /\ ~Fits(ReadCfh.lfh_offset) => lastRead.res = Err("OffsetOverflow")
        /\ (Fits(ReadCfh.lfh_offset) /\ LfhAt > BufLen)
              => lastRead.res = Err("Eof")
        /\ (Fits(ReadCfh.lfh_offset) /\ LfhAt <= BufLen /\ LfhAt + 4 > BufLen)
              => lastRead.res = Err("Eof")
        /\ (Fits(ReadCfh.lfh_offset) /\ LfhAt + 4 <= BufLen /\ ~LfhSignatureRight)
              => lastRead.res = Err("BadLfh")
        /\ (Fits(ReadCfh.lfh_offset) /\ LfhAt + 4 <= BufLen /\ LfhSignatureRight)
              => IF PayloadAt > BufLen THEN lastRead.res = Err("Eof")
                 ELSE IF ~Fits(ReadCfh.comp_size)
                      THEN lastRead.res = Err("OffsetOverflow")
                 ELSE IF ~InBuffer(PayloadSpan) THEN lastRead.res = Err("Eof")
                 ELSE lastRead.res.tag = "Ok"

\* read returned the two payload bytes of a record whose local header
\* holds another compressed size than the record.
C17_Witness ==
    /\ lastRead.tag = "read" /\ lastRead.res.tag = "Ok"
    /\ lastRead.res.buf.len = 2
    /\ Bytes(lastRead.res.buf) = <<97, 98>>
    /\ lastRead.res.lfh.comp_size # Le(2, 4)

\* C20: CentralFileHeader::parse returns, a record or an error, for every
\* input, whatever the fields of the extra span are: no call of next is
\* left running for ever.
C20_ParseTerminates ==
    \A i \in 1..Len(yielded) : yielded[i].tag \in {"Ok", "Err", "None", "Panic"}

(***************************************************************************)
(* Claims about concurrent extraction under one directory.                 *)
(***************************************************************************)
\* A record of a regular file that extracts without an error of its own.
PlainFileRecord(e) ==
    /\ ~IsDirectoryEntry(e) /\ ~e.sep /\ ~e.encrypted /\ e.crcOk

\* The case of C19: the archive holds the directory entry D/ and, besides
\* it, only directory entries and regular files located under D; it is
\* extracted for the first time, into a root that holds no file named D.
UnderOneDirectory ==
    /\ runs = 1 /\ tasks # <<>>
    /\ \E i \in 1..Len(tasks) :
          IsDirectoryEntry(tasks[i]) /\ tasks[i].path = <<"D">>
    /\ \A i \in 1..Len(tasks) :
          /\ IsDirectoryEntry(tasks[i]) \/ PlainFileRecord(tasks[i])
          /\ Prefix(tasks[i].path, 1) = <<"D">>
    /\ Exists(fsTree, <<"D">>) => IsDir(fsTree, <<"D">>)

\* The tree holds D, every directory of the archive and every file of the
\* archive with its payload.
AllExtracted ==
    /\ IsDir(fsTree, <<"D">>)
    /\ \A i \in 1..Len(tasks) :
          IF IsDirectoryEntry(tasks[i]) THEN IsDir(fsTree, tasks[i].path)
          ELSE Exists(fsTree, tasks[i].path)
                  /\ fsTree[tasks[i].path] = File(tasks[i].payload)

\* C19: whatever the interleaving of the workers that extract the
\* directory entry D/ and the entries under D (a file before its directory
\* entry, two workers creating the same missing parent at once), no task
\* fails, the extraction ends, it ends with success, and the tree then
\* holds D and every file.
C19_RacesResolved ==
    /\ [](UnderOneDirectory =>
            /\ \A i \in 1..Len(tasks) : task[i].res \in {"", "ok"}
            /\ extractResult \in {"running", "ok"}
            /\ extractResult = "ok" => AllExtracted)
    /\ (UnderOneDirectory ~> (extractResult = "ok" /\ AllExtracted))

\* Two workers are each about to create the missing directory D, one of
\* them for a file under D whose directory entry has not been begun.
C19_Witness ==
    /\ UnderOneDirectory /\ ~Exists(fsTree, <<"D">>)
    /\ \E i, j \in 1..Len(tasks) :
          /\ i # j
          /\ task[i].pc = "mkdir" /\ task[i].lvl = 1 /\ task[i].fn = "do_file"
          /\ task[j].pc = "mkdir" /\ task[j].lvl = 1
    /\ \E k \in 1..Len(tasks) :
          tasks[k].path = <<"D">> /\ task[k].pc = "todo"

(***************************************************************************)
(* Claims about dos2time.                                                  *)
(***************************************************************************)
\* The fields of the two words, by division: seconds, minutes, hours, day,
\* month, year.
StampSecond == (dosTime % 32) * 2
StampMinute == (dosTime \div 32) % 64
StampHour == dosTime \div 2048
StampDay == dosDate % 32
StampMonth == (dosDate \div 32) % 16
StampYear == (dosDate \div 512) + 1980

\* The length of a month of the Gregorian calendar.
GregorianLeap(y) == y % 4 = 0 /\ (y % 100 # 0 \/ y % 400 = 0)
MonthLength(y, m) ==
    IF m = 2 THEN (IF GregorianLeap(y) THEN 29 ELSE 28)
    ELSE <<31, 28, 31, 30, 31, 30, 31, 31, 30, 31, 30, 31>>[m]

CalendarValid ==
    /\ StampSecond <= 59 /\ StampMinute <= 59 /\ StampHour <= 23
    /\ StampMonth \in 1..12
    /\ StampDay >= 1 /\ StampDay <= MonthLength(StampYear, StampMonth)

\* dos2time returns the date and time of the fields when every field is in
\* its calendar range, and an error otherwise.
DecodesExactlyValid ==
    timeResult.tag # "none" =>
        IF CalendarValid
        THEN timeResult = [tag |-> "Ok", year |-> StampYear, month |-> StampMonth,
                           day |-> StampDay, hour |-> StampHour,
                           minute |-> StampMinute, second |-> StampSecond]
        ELSE timeResult.tag = "Err"

\* C18 (as claimed): dos2time decodes the six fields and fails exactly when
\* one of them is outside its calendar range, and an entry whose
\* timestamp is outside is not extracted.
C18_InvalidNeverExtracted ==
    /\ DecodesExactlyValid
    /\ ~CalendarValid => ~stampEntry.created

\* C18 (amended): dos2time decodes the six fields and fails exactly when
\* one of them is outside its calendar range; a file entry whose timestamp
\* is outside is not extracted (its do_entry fails before the file is
\* created), and an extracted file carries the decoded time.  A directory
\* entry is created without its timestamp being decoded.
C18_InvalidFileNeverExtracted ==
    /\ DecodesExactlyValid
    /\ (~stampEntry.dir /\ ~CalendarValid) => ~stampEntry.created
    /\ (~stampEntry.dir /\ ~CalendarValid /\ stampEntry.pc = "done")
          => stampEntry.res \notin {"", "ok"}
    /\ (~stampEntry.dir /\ stampEntry.created) => stampEntry.mtime = timeResult
    /\ stampEntry.dir => timeResult.tag = "none"

\* dos2time refused 29 February 2100, and the file was not created.
C18_Witness ==
    /\ StampYear = 2100 /\ StampMonth = 2 /\ StampDay = 29
    /\ StampSecond <= 59 /\ StampMinute <= 59 /\ StampHour <= 23
    /\ timeResult = Err("day")
    /\ stampEntry.pc = "done" /\ ~stampEntry.created

(***************************************************************************)
(* Claims about entries that share a destination.                          *)
(***************************************************************************)
\* Records i and j are two file entries with one destination path.
SameDestination(i, j) ==
    /\ i # j /\ tasks[i].path = tasks[j].path
    /\ ~IsDirectoryEntry(tasks[i]) /\ ~IsDirectoryEntry(tasks[j])

\* Task i has opened its destination for writing: it is at its copy, or
\* past it.
HasOpened(i) ==
    \/ task[i].pc = "copy"
    \/ task[i].pc = "done" /\ task[i].res \in {"ok", "crc32 check failed"}

\* C22: without the overwrite option, of two file entries with one
\* destination at most one opens it; the other, when it comes to its open,
\* fails AlreadyExists; the file holds bytes of the entry that opened it
\* only; and the extraction ends with a failure reported, never success.
C22_OneWriterPerDestination ==
    /\ [](~overwrite =>
            \A i, j \in 1..Len(tasks) : SameDestination(i, j) =>
                /\ ~(HasOpened(i) /\ HasOpened(j))
                /\ (HasOpened(i) /\ task[j].pc = "done" /\ ~tasks[j].encrypted)
                      => task[j].res = "AlreadyExists"
                /\ HasOpened(i) =>
                      fsTree[tasks[i].path].data
                          \in {<<>>, tasks[i].payload}
                /\ extractResult # "ok")
    /\ ((~overwrite /\ \E i, j \in 1..Len(tasks) : SameDestination(i, j))
            ~> Reported)

\* Of two entries with the destination f, one wrote its payload and the
\* other failed on the exclusive create; the failure is reported.
C22_Witness ==
    /\ ~overwrite /\ extractResult = "AlreadyExists"
    /\ \E i, j \in 1..Len(tasks) :
          /\ SameDestination(i, j)
          /\ task[i].res = "ok" /\ fsTree[tasks[i].path] = File(tasks[i].payload)
          /\ tasks[j].payload # tasks[i].payload
          /\ task[j].res = "AlreadyExists"

(***************************************************************************)
(* Claims about an entry that is refused.                                  *)
(***************************************************************************)
\* The record is one of those the claim is about: its encryption flag is
\* set, its name is absolute or climbs above the root, or it is a file
\* entry whose method is none of 0, 8 and 93 or whose timestamp is outside
\* the calendar.
Refused ==
    \/ stampEntry.encrypted
    \/ ~IsRelative(Components(name))
    \/ Climbs(Components(name))
    \/ ~IsDirEntry /\ stampEntry.method \notin {0, 8, 93}
    \/ ~IsDirEntry /\ ~CalendarValid

\* C21: an entry that is refused for its encryption flag, its method, its
\* path or its timestamp ends with an error and at no moment has it
\* created or modified anything under the target root: the error comes
\* before the destination is opened or created.
C21_RefusedBeforeOpen ==
    /\ Refused => created = {}
    /\ (Refused /\ stampEntry.pc = "done") => stampEntry.res # "ok"
    /\ stampEntry.res \notin {"", "ok"} => created = {}

\* A file entry with a fine name and a method that is handled was refused
\* for its timestamp, the last of the checks, and created nothing.
C21_Witness ==
    /\ ~stampEntry.encrypted /\ path_join(name) = "ok" /\ ~IsDirEntry
    /\ stampEntry.method = 8
    /\ stampEntry.pc = "done" /\ stampEntry.res \in {"month", "day", "hour", "second"}
    /\ created = {}

=============================================================================
